---- MODULE Spec2Model ----
(***************************************************************************)
(* Verification model of the prop-firm scanner's decision core:            *)
(*   - apex_rules.py        the account risk-limit guardian                *)
(*   - outcome_tracker.py   the outcome tracker (tracker threads, checks)  *)
(*   - database.py          the signal journal and its db_lock             *)
(*   - scanners/tradingview_webhook_scanner.py  candle storage, webhook    *)
(*   - mtf_analyzer.py, time_tiers.py            the MTF scorer and tiers  *)
(* Money is in whole dollars, prices in hundredths of a point.             *)
(***************************************************************************)
EXTENDS Integers, Sequences, FiniteSets, TLC

\* ------------------------------------------------------------------------
\* Bounds of the model
\* ------------------------------------------------------------------------
MaxDay == 2
MaxEvents == 3
MaxSignals == 2
MaxIngest == 306
FreeCandles == 5
HistoryLen == 48
MaxWebhooks == 3

\* ------------------------------------------------------------------------
\* Program constants (apex_rules.py DEFAULT_APEX_CONFIG, scanner CANDLE_LIMITS)
\* ------------------------------------------------------------------------
ACCOUNT_SIZE == 50000
MAX_DAILY_LOSS == 2500
MAX_TRAILING_DRAWDOWN == 2500
DAILY_LOSS_WARNING_PCT == 80
DAILY_LOSS_BLOCK_PCT == 100
MAX_DAY_PROFIT_PCT == 30
DRAWDOWN_WARNING_PCT == 80
CANDLE_LIMIT_1M == 300
CANDLE_LIMIT_5M == 100
CANDLE_LIMIT_15M == 60

Dates == 1..MaxDay

AlertTypes == {"daily_loss_warning", "daily_loss_block", "drawdown_warning",
               "drawdown_breach", "consistency_warning"}

\* Dollar results of a resolved trade handed to record_trade_result.
PnlValues == {-2500, -2000, -500, 300, 700}

VARIABLES
    apex_state,     \* apex_rules.apex_state
    apex_config,    \* apex_rules.apex_config
    today,          \* the calendar date the clock shows
    emitted,        \* history: alerts emitted per (date, type) since the last reset
    lastCheck,      \* history: what the last daily-loss check saw and returned
    seenBand,       \* history: loss bands already met by a daily-loss check, per date
    lastDrawdown,   \* history: what the last trailing-drawdown check saw and returned
    seenDrawdown,   \* history: drawdown bands already met by a drawdown check, per date
    lastOp,         \* history: the last guardian operation and its arguments
    nEvents         \* number of guardian operations so far (bounds the run)

gvars == <<apex_state, apex_config, today, emitted, lastCheck, seenBand, lastDrawdown,
          seenDrawdown, lastOp, nEvents>>

VARIABLES
    signals,          \* signal_recommendations rows: id -> recommendation
    strategy_stats,   \* strategy_versions row (wins, losses)
    daily_stats,      \* daily_stats row of today
    db_lock,          \* database.db_lock: the thread holding it, or NoThread
    price,            \* close of the last 1m candle in candle_storage, or NoPrice
    pc,               \* position of every tracker thread and check cycle
    loc,              \* their local variables
    tracked_signals,  \* outcome_tracker.tracked_signals (its keys)
    tracking_active,  \* outcome_tracker.tracking_active
    applied,          \* history: WIN/LOSS updates applied per recommendation
    recorded          \* history: record_trade_result calls per recommendation

tvars == <<signals, strategy_stats, daily_stats, db_lock, price, pc, loc,
           tracked_signals, tracking_active, applied, recorded>>

VARIABLES
    candles_1m,       \* candle_storage["1m"][ticker], a deque(maxlen=300)
    candles_5m,       \* candle_storage["5m"][ticker], a deque(maxlen=100)
    candles_15m,      \* candle_storage["15m"][ticker], a deque(maxlen=60)
    ingested,         \* history: the 1m candles stored since the storage was empty
    pattern           \* the market of the run: how the candles of the feed look

cvars == <<candles_1m, candles_5m, candles_15m, ingested, pattern>>

VARIABLES
    now,              \* the tier the clock is in (time_tiers.get_current_tier)
    weekend,          \* datetime.now().weekday() >= 5
    analysed,         \* history: the inputs of the last full_analysis call
    result            \* what that call returned, or NoResult

avars == <<now, weekend, analysed, result>>

VARIABLES
    levels,             \* MarketLevels.levels[ticker]: the levels kept per date
    last_analysis_time, \* scanner.last_analysis_time[ticker]: "never" or "set"
    mtf_result,         \* what the last analysis of the pipeline returned
    last_webhook        \* history: what the last webhook request did

wvars == <<levels, last_analysis_time, mtf_result, last_webhook>>

VARIABLES
    clock,              \* the session clock: the minute of the day, 0..1439
    tier_read,          \* what the last get_current_tier() call returned
    plan_in,            \* the inputs of the last stop/target/size computation
    plan,               \* what it produced, or NoPlan
    sizing              \* a call of calculate_position_size: arguments and return

pvars == <<clock, tier_read, plan_in, plan, sizing>>

VARIABLES
    apex_lock,          \* apex_rules.apex_lock: the thread holding it, or NoThread
    apex_pc,            \* where every thread calling into apex_rules stands
    apex_loc            \* its arguments, and what the call returned

xvars == <<apex_lock, apex_pc, apex_loc>>

VARIABLES
    ingest_pc,          \* where every webhook request storing a 1m candle stands
    ingest_loc,         \* the local variables of its build_aggregated_candles call
    observed            \* what the last reader of the 5m and 15m buffers found

ivars == <<ingest_pc, ingest_loc, observed>>

vars == <<gvars, tvars, cvars, avars, wvars, pvars, xvars, ivars>>

\* what the guardian's operations (apex_rules.py) do not touch
notG == <<tvars, cvars, avars, wvars, pvars, xvars, ivars>>

\* what the outcome tracker's operations do not touch, apex_rules aside
notT == <<cvars, avars, wvars, pvars, xvars, ivars>>

\* what the candle store's operations do not touch
notC == <<gvars, tvars, avars, wvars, pvars, xvars, ivars>>

\* what the analysis does not touch
notA == <<gvars, tvars, cvars, wvars, pvars, xvars, ivars>>

\* ------------------------------------------------------------------------
\* apex_rules.py
\* ------------------------------------------------------------------------
DEFAULT_APEX_CONFIG ==
    [account_size |-> ACCOUNT_SIZE,
     initial_balance |-> ACCOUNT_SIZE,
     max_daily_loss |-> MAX_DAILY_LOSS,
     max_trailing_drawdown |-> MAX_TRAILING_DRAWDOWN,
     daily_loss_warning_pct |-> DAILY_LOSS_WARNING_PCT,
     daily_loss_block_pct |-> DAILY_LOSS_BLOCK_PCT,
     max_day_profit_pct |-> MAX_DAY_PROFIT_PCT]

\* The state reset_apex_state builds; also what initialize_state_if_needed
\* leaves after import when no state file exists.
FreshState(cfg) ==
    [high_water_mark |-> cfg.initial_balance,
     current_balance |-> cfg.initial_balance,
     daily_pnl |-> [d \in Dates |-> 0],
     alerts_sent |-> [d \in Dates |-> {}]]

\* loss_pct = (loss_amount / max_daily_loss) * 100, compared with a percentage
LossPctAtLeast(loss_amount, max_daily_loss, pct) ==
    loss_amount * 100 >= pct * max_daily_loss

\* check_daily_loss_limit with the dedup test of the warning branch removed
check_daily_loss_limit_nodedup(st, cfg, date_key) ==
    LET daily == st.daily_pnl[date_key]
        loss_amount == -daily
        sent == st.alerts_sent[date_key]
    IN  IF daily < 0
        THEN IF LossPctAtLeast(loss_amount, cfg.max_daily_loss, cfg.daily_loss_block_pct)
                  /\ "daily_loss_block" \notin sent
             THEN [st |-> [st EXCEPT !.alerts_sent[date_key] = sent \cup {"daily_loss_block"}],
                   alerts |-> <<"daily_loss_block">>]
             ELSE IF LossPctAtLeast(loss_amount, cfg.max_daily_loss, cfg.daily_loss_warning_pct)
                  THEN [st |-> [st EXCEPT !.alerts_sent[date_key] = sent \cup {"daily_loss_warning"}],
                        alerts |-> <<"daily_loss_warning">>]
                  ELSE [st |-> st, alerts |-> <<>>]
        ELSE [st |-> st, alerts |-> <<>>]

check_daily_loss_limit(st, cfg, date_key) ==
    LET daily == st.daily_pnl[date_key]
        loss_amount == -daily
        sent == st.alerts_sent[date_key]
    IN  IF daily < 0
        THEN IF LossPctAtLeast(loss_amount, cfg.max_daily_loss, cfg.daily_loss_block_pct)
                  /\ "daily_loss_block" \notin sent
             THEN [st |-> [st EXCEPT !.alerts_sent[date_key] = sent \cup {"daily_loss_block"}],
                   alerts |-> <<"daily_loss_block">>]
             ELSE IF LossPctAtLeast(loss_amount, cfg.max_daily_loss, cfg.daily_loss_warning_pct)
                       /\ "daily_loss_warning" \notin sent
                  THEN [st |-> [st EXCEPT !.alerts_sent[date_key] = sent \cup {"daily_loss_warning"}],
                        alerts |-> <<"daily_loss_warning">>]
                  ELSE [st |-> st, alerts |-> <<>>]
        ELSE [st |-> st, alerts |-> <<>>]

check_trailing_drawdown(st, cfg, today_key) ==
    LET current == st.current_balance
        high_water == st.high_water_mark
        max_drawdown == cfg.max_trailing_drawdown
        drawdown == high_water - current
        sent == st.alerts_sent[today_key]
        \* drawdown_pct = (drawdown / max_drawdown) * 100 if max_drawdown > 0 else 0
        pct80 == IF max_drawdown > 0
                 THEN drawdown * 100 >= DRAWDOWN_WARNING_PCT * max_drawdown
                 ELSE 0 >= DRAWDOWN_WARNING_PCT
    IN  IF drawdown >= max_drawdown /\ "drawdown_breach" \notin sent
        THEN [st |-> [st EXCEPT !.alerts_sent[today_key] = sent \cup {"drawdown_breach"}],
              alerts |-> <<"drawdown_breach">>]
        ELSE IF pct80 /\ "drawdown_warning" \notin sent
             THEN [st |-> [st EXCEPT !.alerts_sent[today_key] = sent \cup {"drawdown_warning"}],
                   alerts |-> <<"drawdown_warning">>]
             ELSE [st |-> st, alerts |-> <<>>]

RECURSIVE SumPositive(_, _)
SumPositive(daily_pnl, ds) ==
    IF ds = {} THEN 0
    ELSE LET d == CHOOSE x \in ds : TRUE
         IN  (IF daily_pnl[d] > 0 THEN daily_pnl[d] ELSE 0)
             + SumPositive(daily_pnl, ds \ {d})

\* worst = max(violations, key=lambda x: x['percentage']): the first of the
\* days with the largest percentage, in the order of the dict (dates enter
\* daily_pnl in the order of the calendar); 0 when there is no violation
worst_violation(daily_pnl, violations) ==
    IF violations = {} THEN 0
    ELSE CHOOSE d \in violations :
             \A e \in violations :
                 daily_pnl[e] < daily_pnl[d] \/ (daily_pnl[e] = daily_pnl[d] /\ d <= e)

\* check_consistency_rule with day_pct >= max_pct as the test
check_consistency_rule_atleast(st, cfg, today_key) ==
    LET max_pct == cfg.max_day_profit_pct
        total_profit == SumPositive(st.daily_pnl, DOMAIN st.daily_pnl)
        violations == {d \in DOMAIN st.daily_pnl :
                          st.daily_pnl[d] > 0
                          /\ st.daily_pnl[d] * 100 >= max_pct * total_profit}
        sent == st.alerts_sent[today_key]
    IN  IF total_profit <= 0
        THEN [st |-> st, alerts |-> <<>>, worst |-> 0]
        ELSE IF violations # {} /\ "consistency_warning" \notin sent
             THEN [st |-> [st EXCEPT !.alerts_sent[today_key] = sent \cup {"consistency_warning"}],
                   alerts |-> <<"consistency_warning">>,
                   worst |-> worst_violation(st.daily_pnl, violations)]
             ELSE [st |-> st, alerts |-> <<>>, worst |-> 0]

check_consistency_rule(st, cfg, today_key) ==
    LET max_pct == cfg.max_day_profit_pct
        total_profit == SumPositive(st.daily_pnl, DOMAIN st.daily_pnl)
        violations == {d \in DOMAIN st.daily_pnl :
                          st.daily_pnl[d] > 0
                          /\ st.daily_pnl[d] * 100 > max_pct * total_profit}
        sent == st.alerts_sent[today_key]
    IN  IF total_profit <= 0
        THEN [st |-> st, alerts |-> <<>>, worst |-> 0]
        ELSE IF violations # {} /\ "consistency_warning" \notin sent
             THEN [st |-> [st EXCEPT !.alerts_sent[today_key] = sent \cup {"consistency_warning"}],
                   alerts |-> <<"consistency_warning">>,
                   worst |-> worst_violation(st.daily_pnl, violations)]
             ELSE [st |-> st, alerts |-> <<>>, worst |-> 0]

\* date_key is the caller's date; the drawdown and consistency checks read
\* the clock again (today_key).  dated[i] is the date alert i was filed under.
check_all_rules(st, cfg, date_key, today_key) ==
    LET r1 == check_daily_loss_limit(st, cfg, date_key)
        r2 == check_trailing_drawdown(r1.st, cfg, today_key)
        r3 == check_consistency_rule(r2.st, cfg, today_key)
    IN  [st |-> r3.st,
         alerts |-> r1.alerts \o r2.alerts \o r3.alerts,
         dated |-> [i \in 1..Len(r1.alerts) |-> date_key]
                   \o [i \in 1..(Len(r2.alerts) + Len(r3.alerts)) |-> today_key]]

\* The locked section of record_trade_result (lines 191-207).
record_trade_result_nohwm(st, cfg, date_key, today_key, pnl_dollars) ==
    LET s1 == [st EXCEPT !.daily_pnl[date_key] = @ + pnl_dollars,
                         !.current_balance = @ + pnl_dollars]
    IN  check_all_rules(s1, cfg, date_key, today_key)

record_trade_result(st, cfg, date_key, today_key, pnl_dollars) ==
    LET s1 == [st EXCEPT !.daily_pnl[date_key] = @ + pnl_dollars,
                         !.current_balance = @ + pnl_dollars]
        s2 == IF s1.current_balance > s1.high_water_mark
              THEN [s1 EXCEPT !.high_water_mark = s1.current_balance]
              ELSE s1
    IN  check_all_rules(s2, cfg, date_key, today_key)

\* should_block_trading with the drawdown compared by > instead of >=
should_block_trading_above(st, cfg, today_key) ==
    LET daily_pnl == st.daily_pnl[today_key]
        drawdown == st.high_water_mark - st.current_balance
    IN  IF daily_pnl < 0 /\ LossPctAtLeast(-daily_pnl, cfg.max_daily_loss, 100)
        THEN TRUE
        ELSE drawdown > cfg.max_trailing_drawdown

should_block_trading(st, cfg, today_key) ==
    LET daily_pnl == st.daily_pnl[today_key]
        drawdown == st.high_water_mark - st.current_balance
    IN  IF daily_pnl < 0 /\ LossPctAtLeast(-daily_pnl, cfg.max_daily_loss, 100)
        THEN TRUE
        ELSE drawdown >= cfg.max_trailing_drawdown

\* ------------------------------------------------------------------------
\* History bookkeeping for the guardian
\* ------------------------------------------------------------------------
RECURSIVE Count(_, _, _, _)
\* how many of alerts[1..n] are of type ty and filed under date d
Count(alerts, dated, n, dty) ==
    IF n = 0 THEN 0
    ELSE (IF <<dated[n], alerts[n]>> = dty THEN 1 ELSE 0) + Count(alerts, dated, n - 1, dty)

Emit(r) ==
    [dty \in Dates \X AlertTypes |-> emitted[dty] + Count(r.alerts, r.dated, Len(r.alerts), dty)]

\* The loss band a daily-loss check for date_key falls in.
LossBand(st, cfg, date_key) ==
    LET daily == st.daily_pnl[date_key]
    IN  IF daily >= 0 THEN "none"
        ELSE IF LossPctAtLeast(-daily, cfg.max_daily_loss, 100) THEN "block"
        ELSE IF LossPctAtLeast(-daily, cfg.max_daily_loss, 80) THEN "warn"
        ELSE "none"

NoCheck == [date |-> 0, band |-> "none", first |-> FALSE, alerts |-> {}]

\* What a daily-loss check on state st (before the check) for date_key, which
\* returned daily_alerts, leaves in the history.
Checked(st, cfg, date_key, daily_alerts) ==
    LET b == LossBand(st, cfg, date_key)
    IN  [date |-> date_key, band |-> b, first |-> b \notin seenBand[date_key],
         alerts |-> {daily_alerts[i] : i \in 1..Len(daily_alerts)}]

Seen(st, cfg, date_key) ==
    [seenBand EXCEPT ![date_key] = @ \cup {LossBand(st, cfg, date_key)}]

\* The band a trailing-drawdown check falls in.
DrawdownBand(st, cfg) ==
    LET drawdown == st.high_water_mark - st.current_balance
        max_drawdown == cfg.max_trailing_drawdown
    IN  IF drawdown >= max_drawdown THEN "breach"
        ELSE IF max_drawdown > 0 /\ drawdown * 100 >= DRAWDOWN_WARNING_PCT * max_drawdown
        THEN "warn"
        ELSE "none"

\* What a trailing-drawdown check on state st (before the check), run on the
\* date today_key, leaves in the history.
CheckedDrawdown(st, cfg, today_key) ==
    LET b == DrawdownBand(st, cfg)
        r == check_trailing_drawdown(st, cfg, today_key)
    IN  [date |-> today_key, band |-> b, first |-> b \notin seenDrawdown[today_key],
         alerts |-> {r.alerts[i] : i \in 1..Len(r.alerts)}]

SeenDrawdown(st, cfg, today_key) ==
    [seenDrawdown EXCEPT ![today_key] = @ \cup {DrawdownBand(st, cfg)}]

StateAfterUpdates(st, date_key, pnl_dollars) ==
    [st EXCEPT !.daily_pnl[date_key] = @ + pnl_dollars,
               !.current_balance = @ + pnl_dollars,
               !.high_water_mark = IF st.current_balance + pnl_dollars > @
                                   THEN st.current_balance + pnl_dollars ELSE @]

\* ------------------------------------------------------------------------
\* database.py and outcome_tracker.py: data
\* ------------------------------------------------------------------------
SignalIds == 1..MaxSignals
\* two check cycles: the periodic one (checker_loop) and one on demand
\* (/api/check-outcomes); their thread ids follow the trackers'
Checkers == {MaxSignals + 1, MaxSignals + 2}
Threads == SignalIds \cup Checkers
NoThread == 0
NoPrice == -1

\* Recommendations as save_signal stored them (points): a long and a short one
Recommendations ==
    { [ticker |-> "MGC", direction |-> "LONG", entry_price |-> 100, stop_price |-> 90,
       target_price |-> 120],
      [ticker |-> "MNQ", direction |-> "SHORT", entry_price |-> 100, stop_price |-> 110,
       target_price |-> 80] }

\* the recommendation stored under id i: long and short ones alternate
Recommendation(i) ==
    CHOOSE r \in Recommendations : r.direction = (IF i % 2 = 1 THEN "LONG" ELSE "SHORT")

PriceValues == {80, 100, 120}

PendingRow(r) ==
    [ticker |-> r.ticker, direction |-> r.direction, entry_price |-> r.entry_price,
     stop_price |-> r.stop_price, target_price |-> r.target_price,
     outcome |-> "PENDING", exit_price |-> NoPrice, pnl_ticks |-> 0]

NoLocals == [sig |-> 0, outcome |-> "NONE", price |-> NoPrice, pnl |-> 0,
             pending |-> <<>>, idx |-> 0]

NoOutcome == [outcome |-> "NONE", price |-> NoPrice, pnl |-> 0]

\* check_signal_outcome with > and < where the code has >= and <=
check_signal_outcome_strict(signal, current_price) ==
    IF signal.entry_price = 0 \/ signal.stop_price = 0 \/ signal.target_price = 0
    THEN NoOutcome
    ELSE IF current_price = NoPrice THEN NoOutcome
    ELSE IF signal.direction = "LONG"
    THEN IF current_price > signal.target_price
         THEN [outcome |-> "WIN", price |-> current_price,
               pnl |-> signal.target_price - signal.entry_price]
         ELSE IF current_price < signal.stop_price
         THEN [outcome |-> "LOSS", price |-> current_price,
               pnl |-> signal.stop_price - signal.entry_price]
         ELSE NoOutcome
    ELSE IF signal.direction = "SHORT"
    THEN IF current_price < signal.target_price
         THEN [outcome |-> "WIN", price |-> current_price,
               pnl |-> signal.entry_price - signal.target_price]
         ELSE IF current_price > signal.stop_price
         THEN [outcome |-> "LOSS", price |-> current_price,
               pnl |-> signal.entry_price - signal.stop_price]
         ELSE NoOutcome
    ELSE NoOutcome

\* check_signal_outcome without the test of current_price against None
check_signal_outcome_unguarded(signal, current_price) ==
    IF signal.entry_price = 0 \/ signal.stop_price = 0 \/ signal.target_price = 0
    THEN NoOutcome
    ELSE IF signal.direction = "LONG"
    THEN IF current_price >= signal.target_price
         THEN [outcome |-> "WIN", price |-> current_price,
               pnl |-> signal.target_price - signal.entry_price]
         ELSE IF current_price <= signal.stop_price
         THEN [outcome |-> "LOSS", price |-> current_price,
               pnl |-> signal.stop_price - signal.entry_price]
         ELSE NoOutcome
    ELSE IF signal.direction = "SHORT"
    THEN IF current_price <= signal.target_price
         THEN [outcome |-> "WIN", price |-> current_price,
               pnl |-> signal.entry_price - signal.target_price]
         ELSE IF current_price >= signal.stop_price
         THEN [outcome |-> "LOSS", price |-> current_price,
               pnl |-> signal.entry_price - signal.stop_price]
         ELSE NoOutcome
    ELSE NoOutcome

\* check_signal_outcome(signal), given what get_current_price returned
check_signal_outcome(signal, current_price) ==
    IF signal.entry_price = 0 \/ signal.stop_price = 0 \/ signal.target_price = 0
    THEN NoOutcome
    ELSE IF current_price = NoPrice THEN NoOutcome
    ELSE IF signal.direction = "LONG"
    THEN IF current_price >= signal.target_price
         THEN [outcome |-> "WIN", price |-> current_price,
               pnl |-> signal.target_price - signal.entry_price]
         ELSE IF current_price <= signal.stop_price
         THEN [outcome |-> "LOSS", price |-> current_price,
               pnl |-> signal.stop_price - signal.entry_price]
         ELSE NoOutcome
    ELSE IF signal.direction = "SHORT"
    THEN IF current_price <= signal.target_price
         THEN [outcome |-> "WIN", price |-> current_price,
               pnl |-> signal.entry_price - signal.target_price]
         ELSE IF current_price >= signal.stop_price
         THEN [outcome |-> "LOSS", price |-> current_price,
               pnl |-> signal.entry_price - signal.stop_price]
         ELSE NoOutcome
    ELSE NoOutcome

\* A lock that the holder may take again (threading.RLock): not what database.py uses.
lock_acquire_reentrant(holder, me) == holder \in {NoThread, me}

\* db_lock = Lock(): acquire() succeeds only while nobody holds the lock,
\* the holder itself included.
lock_acquire(holder, me) == holder = NoThread

\* update_signal_outcome, the UPDATE of the row: unconditional on the row's outcome
update_signal_outcome(row, outcome, exit_price, pnl_ticks) ==
    LET outcome_upper == IF outcome \in {"WIN", "LOSS", "DISCARDED"} THEN outcome ELSE "PENDING"
    IN  [row EXCEPT !.outcome = outcome_upper, !.exit_price = exit_price,
                    !.pnl_ticks = pnl_ticks]

\* update_signal_outcome, the UPDATE of strategy_versions
update_strategy_version(stats, outcome) ==
    [wins |-> stats.wins + (IF outcome = "WIN" THEN 1 ELSE 0),
     losses |-> stats.losses + (IF outcome = "LOSS" THEN 1 ELSE 0)]

\* update_daily_stats(outcome, pnl_ticks), once it holds the lock
update_daily_stats(stats, outcome, pnl_ticks) ==
    [total_signals |-> stats.total_signals + 1,
     wins |-> stats.wins + (IF outcome = "WIN" THEN 1 ELSE 0),
     losses |-> stats.losses + (IF outcome = "LOSS" THEN 1 ELSE 0),
     total_pnl_ticks |-> stats.total_pnl_ticks + pnl_ticks]

RECURSIVE Descending(_)
\* ORDER BY recommended_at DESC: ids are handed out in order of creation
Descending(S) ==
    IF S = {} THEN <<>>
    ELSE LET m == CHOOSE x \in S : \A y \in S : y <= x
         IN  <<m>> \o Descending(S \ {m})

\* get_pending_signals(): the ids of the rows it returns
get_pending_signals(rows) ==
    Descending({i \in DOMAIN rows : rows[i].outcome = "PENDING"
                                     /\ rows[i].direction \in {"LONG", "SHORT"}})

\* apex_config["tick_values"], in cents per tick
tick_value_cents(ticker) ==
    IF ticker = "MNQ" THEN 50 ELSE IF ticker = "MES" THEN 125 ELSE 100

\* ticks_to_dollars(ticker, ticks); the recommendations of the model keep the
\* product a whole number of dollars
ticks_to_dollars(ticker, ticks) == (ticks * tick_value_cents(ticker)) \div 100

\* The tracker side at rest, the table of recommendations aside
TRest ==
    /\ strategy_stats = [wins |-> 0, losses |-> 0]
    /\ daily_stats = [total_signals |-> 0, wins |-> 0, losses |-> 0, total_pnl_ticks |-> 0]
    /\ db_lock = NoThread
    /\ price = NoPrice
    /\ pc = [t \in Threads |-> "off"]
    /\ loc = [t \in Threads |-> NoLocals]
    /\ tracked_signals = {}
    /\ tracking_active = TRUE
    /\ applied = [i \in SignalIds |-> 0]
    /\ recorded = [i \in SignalIds |-> 0]

\* The tracker side at rest: used as the tracker part of the other specifications.
TIdle ==
    /\ signals = [i \in SignalIds |-> PendingRow(Recommendation(i))]
    /\ TRest

\* The tracker side at rest over an empty table of recommendations
TEmpty ==
    /\ signals = <<>>
    /\ TRest

\* ------------------------------------------------------------------------
\* tradingview_webhook_scanner.py: candle storage and aggregation
\* ------------------------------------------------------------------------
Patterns == {"rising", "choppy"}

Max2(a, b) == IF a >= b THEN a ELSE b

Min2(a, b) == IF a <= b THEN a ELSE b

\* The k-th 1m candle of the feed since the storage was empty.  Prices and
\* volumes wander with periods that are no multiple of 5 or 15, so that the
\* highest high and the lowest low fall on different places of the groups; a
\* spike candle has a longer range and more volume.
FeedCandle(k, pat, spike) ==
    LET drift == IF pat = "rising" THEN k ELSE IF pat = "falling" THEN -k ELSE 0
        o == 1000 + drift + ((k * 3) % 7)
        c == 1000 + drift + (((k + 1) * 3) % 7)
        ext == IF spike THEN 10 ELSE 0
    IN  [time |-> k, open |-> o, close |-> c,
         high |-> Max2(o, c) + ((k * 5) % 3) + ext,
         low |-> Min2(o, c) - ((k * 2) % 3) - ext,
         volume |-> 100 + ((k * 4) % 9) + (IF spike THEN 50 ELSE 0)]

\* deque(maxlen=n).append(x)
deque_append(d, x, maxlen) ==
    IF Len(d) >= maxlen THEN Tail(d) \o <<x>> ELSE Append(d, x)

RECURSIVE max_high(_)
\* max(c.get('high', 0) for c in chunk)
max_high(chunk) ==
    IF Len(chunk) = 1 THEN chunk[1].high ELSE Max2(chunk[1].high, max_high(Tail(chunk)))

RECURSIVE min_low(_)
\* min(c.get('low', float('inf')) for c in chunk)
min_low(chunk) ==
    IF Len(chunk) = 1 THEN chunk[1].low ELSE Min2(chunk[1].low, min_low(Tail(chunk)))

RECURSIVE sum_volume(_)
\* sum(c.get('volume', 0) for c in chunk)
sum_volume(chunk) ==
    IF chunk = <<>> THEN 0 ELSE chunk[1].volume + sum_volume(Tail(chunk))

\* An aggregate that takes its high from the first candle of the chunk only.
aggregated_first_high(chunk) ==
    [time |-> chunk[1].time, open |-> chunk[1].open, high |-> chunk[1].high,
     low |-> min_low(chunk), close |-> chunk[Len(chunk)].close,
     volume |-> sum_volume(chunk)]

\* build_aggregated_candles: the aggregated candle of one chunk
aggregated(chunk) ==
    [time |-> chunk[1].time, open |-> chunk[1].open, high |-> max_high(chunk),
     low |-> min_low(chunk), close |-> chunk[Len(chunk)].close,
     volume |-> sum_volume(chunk)]

\* candles_1m[start_idx:end_idx] for chunk i (0-based), as Python slices it
chunk_of(c1m, i, period) ==
    SubSeq(c1m, i * period + 1, Min2((i + 1) * period, Len(c1m)))

RECURSIVE rebuild(_, _, _, _, _)
\* the for loop of build_aggregated_candles, from chunk i on, appending to d
rebuild(d, c1m, i, num_complete, period_maxlen) ==
    IF i >= num_complete THEN d
    ELSE LET chunk == chunk_of(c1m, i, period_maxlen[1])
             d2 == IF Len(chunk) = period_maxlen[1]
                   THEN deque_append(d, aggregated(chunk), period_maxlen[2])
                   ELSE d
         IN  rebuild(d2, c1m, i + 1, num_complete, period_maxlen)

\* build_aggregated_candles(ticker, candles_1m, period, target_tf): the new
\* contents of candle_storage[target_tf][ticker], given the current ones
build_aggregated_candles(c1m, period, maxlen, current) ==
    LET num_complete == Len(c1m) \div period
    IN  IF num_complete = 0 THEN current
        ELSE IF Len(current) >= num_complete THEN current
        ELSE rebuild(<<>>, c1m, 0, num_complete, <<period, maxlen>>)

\* aggregate_candles(ticker): the new 5m and 15m deques
aggregate_candles(c1m, c5m, c15m) ==
    IF Len(c1m) < 5 THEN <<c5m, c15m>>
    ELSE <<build_aggregated_candles(c1m, 5, CANDLE_LIMIT_5M, c5m),
           build_aggregated_candles(c1m, 15, CANDLE_LIMIT_15M, c15m)>>

\* The candle store at rest: used as the candle part of the other specifications.
CIdle ==
    /\ candles_1m = <<>>
    /\ candles_5m = <<>>
    /\ candles_15m = <<>>
    /\ ingested = <<>>
    /\ pattern = "rising"

\* ------------------------------------------------------------------------
\* store_candle run by several webhook requests at once (Flask serves every
\* request in a thread of its own; the scanner has no lock): the statements of
\* store_candle, aggregate_candles and build_aggregated_candles are steps
\* ------------------------------------------------------------------------
MaxIngestThreads == 2
IngestThreads == 1..MaxIngestThreads
ThreadedIngest == 16

NoBuild == [candles_1m |-> <<>>, period |-> 0, num_complete |-> 0, i |-> 0]
NoObservation == [n5m |-> 0, n15m |-> 0, rebuilding |-> FALSE]

IIdle ==
    /\ ingest_pc = [w \in IngestThreads |-> "idle"]
    /\ ingest_loc = [w \in IngestThreads |-> NoBuild]
    /\ observed = NoObservation

target_tf(w) == IF ingest_loc[w].period = 5 THEN candles_5m ELSE candles_15m

\* thread w has cleared a buffer and not yet appended all of its candles
Rebuilding(w) == ingest_pc[w] = "loop" /\ ingest_loc[w].i < ingest_loc[w].num_complete

notI == <<gvars, tvars, avars, wvars, pvars, xvars>>

\* store_candle, lines 577-591: the candle is appended to the 1m deque and saved
IngestAppend(w) ==
    /\ ingest_pc[w] = "idle"
    /\ Len(ingested) < ThreadedIngest
    /\ LET candle_data == FeedCandle(Len(ingested) + 1, pattern, FALSE)
       IN  /\ candles_1m' = deque_append(candles_1m, candle_data, CANDLE_LIMIT_1M)
           /\ ingested' = Append(ingested, candle_data)
    /\ ingest_pc' = [ingest_pc EXCEPT ![w] = "aggregate"]
    /\ UNCHANGED <<candles_5m, candles_15m, pattern, ingest_loc, observed, notI>>

\* aggregate_candles, lines 602-610: candles_1m = list(candle_storage["1m"][ticker])
IngestSnapshot(w) ==
    /\ ingest_pc[w] = "aggregate"
    /\ IF Len(candles_1m) < 5
       THEN /\ ingest_pc' = [ingest_pc EXCEPT ![w] = "idle"]
            /\ ingest_loc' = [ingest_loc EXCEPT ![w] = NoBuild]
       ELSE /\ ingest_pc' = [ingest_pc EXCEPT ![w] = "count"]
            /\ ingest_loc' = [ingest_loc EXCEPT ![w] =
                                 [NoBuild EXCEPT !.candles_1m = candles_1m, !.period = 5]]
    /\ UNCHANGED <<cvars, observed, notI>>

\* what follows a build_aggregated_candles call: the 15m build, or the end of
\* store_candle
AfterBuild(w) ==
    IF ingest_loc[w].period = 5
    THEN /\ ingest_pc' = [ingest_pc EXCEPT ![w] = "count"]
         /\ ingest_loc' = [ingest_loc EXCEPT ![w] =
                              [NoBuild EXCEPT !.candles_1m = ingest_loc[w].candles_1m,
                                              !.period = 15]]
    ELSE /\ ingest_pc' = [ingest_pc EXCEPT ![w] = "idle"]
         /\ ingest_loc' = [ingest_loc EXCEPT ![w] = NoBuild]

\* build_aggregated_candles, lines 629-647: num_complete and current_count
IngestCount(w) ==
    /\ ingest_pc[w] = "count"
    /\ LET num_complete == Len(ingest_loc[w].candles_1m) \div ingest_loc[w].period
           current_count == Len(target_tf(w))
       IN  IF num_complete = 0 \/ current_count >= num_complete
           THEN AfterBuild(w)
           ELSE /\ ingest_pc' = [ingest_pc EXCEPT ![w] = "clear"]
                /\ ingest_loc' = [ingest_loc EXCEPT ![w].num_complete = num_complete]
    /\ UNCHANGED <<cvars, observed, notI>>

\* line 650: candle_storage[target_tf][ticker].clear()
IngestClear(w) ==
    /\ ingest_pc[w] = "clear"
    /\ IF ingest_loc[w].period = 5
       THEN candles_5m' = <<>> /\ UNCHANGED candles_15m
       ELSE candles_15m' = <<>> /\ UNCHANGED candles_5m
    /\ ingest_pc' = [ingest_pc EXCEPT ![w] = "loop"]
    /\ ingest_loc' = [ingest_loc EXCEPT ![w].i = 0]
    /\ UNCHANGED <<candles_1m, ingested, pattern, observed, notI>>

\* lines 652-666: one pass of the for loop
IngestLoop(w) ==
    /\ ingest_pc[w] = "loop"
    /\ LET l == ingest_loc[w]
           chunk == chunk_of(l.candles_1m, l.i, l.period)
       IN  IF l.i >= l.num_complete
           THEN AfterBuild(w) /\ UNCHANGED <<candles_5m, candles_15m>>
           ELSE /\ IF l.period = 5
                   THEN /\ candles_5m' = deque_append(candles_5m, aggregated(chunk),
                                                      CANDLE_LIMIT_5M)
                        /\ UNCHANGED candles_15m
                   ELSE /\ candles_15m' = deque_append(candles_15m, aggregated(chunk),
                                                       CANDLE_LIMIT_15M)
                        /\ UNCHANGED candles_5m
                /\ ingest_loc' = [ingest_loc EXCEPT ![w].i = l.i + 1]
                /\ UNCHANGED ingest_pc
    /\ UNCHANGED <<candles_1m, ingested, pattern, observed, notI>>

\* a reader of the buffers: the analysis of a webhook request (lines 2464-2466)
\* or a page of the dashboard copies the deques without a lock
ReadBuffers ==
    /\ observed' = [n5m |-> Len(candles_5m), n15m |-> Len(candles_15m),
                    rebuilding |-> \E w \in IngestThreads : Rebuilding(w)]
    /\ UNCHANGED <<cvars, ingest_pc, ingest_loc, notI>>

TNextIngest ==
    \/ \E w \in IngestThreads :
          \/ IngestAppend(w)
          \/ IngestSnapshot(w)
          \/ IngestCount(w)
          \/ IngestClear(w)
          \/ IngestLoop(w)
    \/ ReadBuffers

\* ------------------------------------------------------------------------
\* mtf_analyzer.py and time_tiers.py.  Prices are in cents, so that the
\* round(x, 2) of the code is a rounding to a whole number.
\* ------------------------------------------------------------------------

\* The candle windows given to the analysis.  A window is written as its
\* steps <<body, upper wick, lower wick, volume>>: every candle opens at the
\* close of the one before.
WindowShapes ==
    [ up_strong |-> <<<<400, 100, 100, 100>>, <<400, 100, 100, 100>>, <<400, 100, 100, 100>>, <<400, 100, 100, 130>>, <<400, 100, 100, 130>>, <<400, 100, 100, 130>>>>,
      up_moderate |-> <<<<400, 100, 100, 100>>, <<-200, 100, 100, 100>>, <<400, 100, 100, 100>>, <<-200, 100, 100, 100>>, <<400, 100, 100, 100>>, <<400, 100, 100, 100>>>>,
      up_weak |-> <<<<1500, 100, 100, 100>>, <<-100, 100, 100, 100>>, <<-100, 100, 100, 100>>, <<-100, 100, 100, 100>>, <<-100, 100, 100, 100>>, <<-100, 100, 100, 100>>>>,
      up_choppy |-> <<<<200, 400, 400, 0>>, <<200, 400, 400, 0>>, <<200, 400, 400, 0>>, <<200, 400, 400, 0>>, <<200, 400, 400, 0>>, <<200, 400, 400, 0>>>>,
      up_tiny |-> <<<<30, 10, 10, 100>>, <<30, 10, 10, 100>>, <<30, 10, 10, 100>>, <<30, 10, 10, 105>>, <<30, 10, 10, 105>>, <<30, 10, 10, 105>>>>,
      down_strong |-> <<<<-400, 100, 100, 100>>, <<-400, 100, 100, 100>>, <<-400, 100, 100, 100>>, <<-400, 100, 100, 70>>, <<-400, 100, 100, 70>>, <<-400, 100, 100, 70>>>>,
      down_moderate |-> <<<<-400, 100, 100, 100>>, <<200, 100, 100, 100>>, <<-400, 100, 100, 100>>, <<200, 100, 100, 100>>, <<-400, 100, 100, 100>>, <<-400, 100, 100, 100>>>>,
      down_choppy |-> <<<<-200, 400, 400, 0>>, <<-200, 400, 400, 0>>, <<-200, 400, 400, 0>>, <<-200, 400, 400, 0>>, <<-200, 400, 400, 0>>, <<-200, 400, 400, 0>>>>,
      flat |-> <<<<10, 100, 100, 100>>, <<-10, 100, 100, 100>>, <<10, 100, 100, 100>>, <<-10, 100, 100, 100>>, <<10, 100, 100, 100>>, <<-10, 100, 100, 100>>>>,
      short |-> <<<<400, 100, 100, 100>>, <<400, 100, 100, 100>>>> ]

WindowNames == DOMAIN WindowShapes

RECURSIVE BuildWindow(_, _)
BuildWindow(steps, o) ==
    IF steps = <<>> THEN <<>>
    ELSE LET s == steps[1]
             c == o + s[1]
         IN  <<[open |-> o, close |-> c, high |-> Max2(o, c) + s[2],
                low |-> Min2(o, c) - s[3], volume |-> s[4]]>>
             \o BuildWindow(Tail(steps), c)

\* the candles of every window
Windows == [name \in WindowNames |-> BuildWindow(WindowShapes[name], 100000)]

\* the 15m and 5m buffers take any window, the 1m buffer one of these
Windows1m == {"up_strong", "up_weak", "down_strong", "flat"}

Tickers == {"MNQ", "MES"}

NoResult == [direction |-> "NONE"]

NoInputs == [ticker |-> "NONE"]

\* the analysis has not run
AIdle ==
    /\ now = "PRIME"
    /\ weekend = FALSE
    /\ analysed = NoInputs
    /\ result = NoResult

Abs(x) == IF x >= 0 THEN x ELSE -x

\* round(): the nearest whole number to num/den (den > 0), a tie going to the
\* even one
RoundHalfEven(num, den) ==
    LET f == num \div den
        r == num - f * den
    IN  IF 2 * r > den THEN f + 1
        ELSE IF 2 * r < den THEN f
        ELSE IF f % 2 = 0 THEN f ELSE f + 1

\* TICK_VALUES[base]['max_stop_points'], with the fallback of get_ticker_info to MNQ
max_stop_points(ticker) ==
    IF ticker \in {"MES", "ES"} THEN 6
    ELSE IF ticker \in {"MGC", "GC"} THEN 10
    ELSE 15

\* time_tiers.TIERS; the target ratios are in tenths
TIERS ==
    [ PRIME     |-> [min_confidence |-> 80, risk |-> 250, t1_rr |-> 15, t2_rr |-> 20, blocked |-> FALSE],
      MIDDAY    |-> [min_confidence |-> 85, risk |-> 175, t1_rr |-> 10, t2_rr |-> 15, blocked |-> FALSE],
      CLOSE     |-> [min_confidence |-> 85, risk |-> 175, t1_rr |-> 10, t2_rr |-> 15, blocked |-> FALSE],
      EVENING   |-> [min_confidence |-> 90, risk |-> 125, t1_rr |-> 10, t2_rr |-> 15, blocked |-> FALSE],
      BLOCKED   |-> [min_confidence |-> 100, risk |-> 0, t1_rr |-> 10, t2_rr |-> 10, blocked |-> TRUE],
      PREMARKET |-> [min_confidence |-> 90, risk |-> 125, t1_rr |-> 10, t2_rr |-> 15, blocked |-> FALSE] ]

TierNames == DOMAIN TIERS

\* The session clock, as far as the program tells times apart: the tier
\* windows of get_current_tier, with 09:30-11:30 split at 10:00 (ORB_END of
\* market_levels.py) and 21:00-06:00 split at midnight.
Segments == {"OVERNIGHT", "PREMARKET", "OPENING", "PRIME", "MIDDAY", "CLOSE",
             "EVENING", "NIGHT"}

MinutesPerDay == 1440

\* time(h, m) as the minute of the day
time(h, m) == 60 * h + m

\* TIERS[name]['start'] and ['end']
TIER_WINDOWS ==
    [ PRIME     |-> [start |-> time(9, 30), end |-> time(11, 30)],
      MIDDAY    |-> [start |-> time(11, 30), end |-> time(15, 30)],
      CLOSE     |-> [start |-> time(15, 30), end |-> time(17, 0)],
      EVENING   |-> [start |-> time(17, 0), end |-> time(21, 0)],
      BLOCKED   |-> [start |-> time(21, 0), end |-> time(6, 0)],
      PREMARKET |-> [start |-> time(6, 0), end |-> time(9, 30)] ]

\* get_current_tier() with the BLOCKED test written `and` instead of `or`
get_current_tier_and(current_time) ==
    IF time(9, 30) <= current_time /\ current_time < time(11, 30)
    THEN [tier |-> "PRIME", fallback |-> FALSE]
    ELSE IF time(11, 30) <= current_time /\ current_time < time(15, 30)
    THEN [tier |-> "MIDDAY", fallback |-> FALSE]
    ELSE IF time(15, 30) <= current_time /\ current_time < time(17, 0)
    THEN [tier |-> "CLOSE", fallback |-> FALSE]
    ELSE IF time(17, 0) <= current_time /\ current_time < time(21, 0)
    THEN [tier |-> "EVENING", fallback |-> FALSE]
    ELSE IF current_time >= time(21, 0) /\ current_time < time(6, 0)
    THEN [tier |-> "BLOCKED", fallback |-> FALSE]
    ELSE IF time(6, 0) <= current_time /\ current_time < time(9, 30)
    THEN [tier |-> "PREMARKET", fallback |-> FALSE]
    ELSE [tier |-> "MIDDAY", fallback |-> TRUE]

\* get_current_tier() when the session clock shows current_time (the minute
\* of the day): the tier, and whether the fallback return was taken
get_current_tier_at(current_time) ==
    IF time(9, 30) <= current_time /\ current_time < time(11, 30)
    THEN [tier |-> "PRIME", fallback |-> FALSE]
    ELSE IF time(11, 30) <= current_time /\ current_time < time(15, 30)
    THEN [tier |-> "MIDDAY", fallback |-> FALSE]
    ELSE IF time(15, 30) <= current_time /\ current_time < time(17, 0)
    THEN [tier |-> "CLOSE", fallback |-> FALSE]
    ELSE IF time(17, 0) <= current_time /\ current_time < time(21, 0)
    THEN [tier |-> "EVENING", fallback |-> FALSE]
    ELSE IF current_time >= time(21, 0) \/ current_time < time(6, 0)
    THEN [tier |-> "BLOCKED", fallback |-> FALSE]
    ELSE IF time(6, 0) <= current_time /\ current_time < time(9, 30)
    THEN [tier |-> "PREMARKET", fallback |-> FALSE]
    ELSE [tier |-> "MIDDAY", fallback |-> TRUE]

\* the segment a time of the day lies in
segment_of(current_time) ==
    IF current_time < time(6, 0) THEN "OVERNIGHT"
    ELSE IF current_time < time(9, 30) THEN "PREMARKET"
    ELSE IF current_time < time(10, 0) THEN "OPENING"
    ELSE IF current_time < time(11, 30) THEN "PRIME"
    ELSE IF current_time < time(15, 30) THEN "MIDDAY"
    ELSE IF current_time < time(17, 0) THEN "CLOSE"
    ELSE IF current_time < time(21, 0) THEN "EVENING"
    ELSE "NIGHT"

\* the segment that follows
NextSegment(s) ==
    CASE s = "OVERNIGHT" -> "PREMARKET"
      [] s = "PREMARKET" -> "OPENING"
      [] s = "OPENING" -> "PRIME"
      [] s = "PRIME" -> "MIDDAY"
      [] s = "MIDDAY" -> "CLOSE"
      [] s = "CLOSE" -> "EVENING"
      [] s = "EVENING" -> "NIGHT"
      [] s = "NIGHT" -> "OVERNIGHT"

\* get_current_tier() at a time in segment s: the name of the tier
get_current_tier(s) ==
    IF s = "OPENING" THEN "PRIME"
    ELSE IF s \in {"NIGHT", "OVERNIGHT"} THEN "BLOCKED"
    ELSE s

\* MTFAnalyzer.analyze_trend(candles): direction and strength.  change_pct =
\* (last_close - first_open) / first_open * 100 is compared by cross-multiplying.
analyze_trend(candles) ==
    IF Len(candles) < 3 THEN [direction |-> "neutral", strength |-> "weak"]
    ELSE
    LET n == Len(candles)
        first_open == candles[1].open
        diff == candles[n].close - first_open
        bullish_count == Cardinality({i \in 1..n : candles[i].close > candles[i].open})
        bearish_count == Cardinality({i \in 1..n : candles[i].close < candles[i].open})
        higher_highs == candles[n].high > candles[n - 2].high
        higher_lows == candles[n].low > candles[n - 2].low
        lower_highs == candles[n].high < candles[n - 2].high
        lower_lows == candles[n].low < candles[n - 2].low
        above_005 == first_open > 0 /\ diff * 2000 > first_open
        below_005 == first_open > 0 /\ diff * 2000 < -first_open
        within_003 == first_open <= 0 \/ Abs(diff) * 10000 < 3 * first_open
        direction ==
            IF higher_highs /\ higher_lows /\ above_005 THEN "bullish"
            ELSE IF lower_highs /\ lower_lows /\ below_005 THEN "bearish"
            ELSE IF within_003 THEN "neutral"
            ELSE IF diff > 0 THEN "bullish"
            ELSE "bearish"
        strength ==
            IF direction = "bullish"
            THEN IF bullish_count * 10 >= 7 * n /\ higher_highs /\ higher_lows THEN "strong"
                 ELSE IF bullish_count * 2 >= n THEN "moderate"
                 ELSE "weak"
            ELSE IF direction = "bearish"
            THEN IF bearish_count * 10 >= 7 * n /\ lower_highs /\ lower_lows THEN "strong"
                 ELSE IF bearish_count * 2 >= n THEN "moderate"
                 ELSE "weak"
            ELSE "weak"
    IN  [direction |-> direction, strength |-> strength]

RECURSIVE sum_range(_)
sum_range(candles) ==
    IF candles = <<>> THEN 0
    ELSE candles[1].high - candles[1].low + sum_range(Tail(candles))

\* MTFAnalyzer.analyze_structure(candles): the score
analyze_structure(candles) ==
    IF Len(candles) < 5 THEN 50
    ELSE
    LET n == Len(candles)
        overlaps == Cardinality({i \in 2..n :
            (Min2(candles[i - 1].high, candles[i].high)
               - Max2(candles[i - 1].low, candles[i].low)) * 2 * n > sum_range(candles)})
        wick_dominated == Cardinality({i \in 1..n :
            /\ candles[i].high - candles[i].low > 0
            /\ Abs(candles[i].close - candles[i].open) * 10
                  < 3 * (candles[i].high - candles[i].low)})
        overlap_penalty == IF overlaps * 10 > 6 * (n - 1) THEN 30
                           ELSE IF overlaps * 10 > 4 * (n - 1) THEN 15 ELSE 0
        wick_penalty == IF wick_dominated * 10 > 5 * n THEN 20
                        ELSE IF wick_dominated * 10 > 3 * n THEN 10 ELSE 0
        weak_penalty == IF analyze_trend(candles).strength = "weak" THEN 15 ELSE 0
    IN  Max2(0, 100 - overlap_penalty - wick_penalty - weak_penalty)

RECURSIVE sum_seq(_)
sum_seq(s) == IF s = <<>> THEN 0 ELSE s[1] + sum_seq(Tail(s))

\* MTFAnalyzer.analyze_volume(candles): the score.  vol_change =
\* (avg_recent - avg_older) / avg_older * 100 is compared by cross-multiplying.
analyze_volume(candles) ==
    LET all == [i \in 1..Len(candles) |-> candles[i].volume]
        volumes == SelectSeq(all, LAMBDA v : v > 0)
    IN  IF Len(candles) < 3 \/ Len(volumes) < 3 THEN 50
        ELSE
        LET n == Len(volumes)
            recent_vol == SubSeq(volumes, n - 2, n)
            older_vol == IF n > 3 THEN SubSeq(volumes, 1, n - 3) ELSE SubSeq(volumes, 1, 1)
            r == sum_seq(recent_vol) * Len(older_vol)
            o == sum_seq(older_vol) * 3
            direction == analyze_trend(candles).direction
        IN  IF direction \in {"bullish", "bearish"}
            THEN IF 5 * r > 6 * o THEN 100
                 ELSE IF r > o THEN 85
                 ELSE IF 5 * r < 4 * o THEN 50
                 ELSE 75
            ELSE 75

\* a blocked check that never blocks
never_blocked(t) == FALSE

\* is_trading_blocked() at a reading of the clock that finds tier t
is_trading_blocked(t) == TIERS[t].blocked

\* MTFAnalyzer.check_catalyst_risk(): the score; t is the tier its reading of
\* the clock finds, is_weekend is datetime.now().weekday() >= 5
check_catalyst_risk(t, is_weekend) ==
    IF is_trading_blocked(t) THEN 0
    ELSE IF is_weekend THEN 0
    ELSE 100

\* the true range of candle i (i > 1)
true_range(candles, i) ==
    Max2(candles[i].high - candles[i].low,
         Max2(Abs(candles[i].high - candles[i - 1].close),
              Abs(candles[i].low - candles[i - 1].close)))

\* MTFAnalyzer._calculate_atr(candles, period=14): the mean of the last 14
\* true ranges, as the fraction num/den, followed by the `if atr < 1: atr = 5`
\* of full_analysis (a point is 100 cents)
calculate_atr(candles) ==
    IF Len(candles) < 2 THEN [num |-> 1000, den |-> 1]
    ELSE LET n == Len(candles)
             from == Max2(2, n - 13)
             trs == [k \in 1..(n - from + 1) |-> true_range(candles, from + k - 1)]
         IN  IF sum_seq(trs) < 100 * Len(trs) THEN [num |-> 500, den |-> 1]
             ELSE [num |-> sum_seq(trs), den |-> Len(trs)]

\* a cap that puts the capped stop on the profit side of the entry
cap_stop_loss_mirrored(ticker, entry, calculated_stop, direction) ==
    LET max_stop == max_stop_points(ticker) * 100
    IN  IF Abs(entry - calculated_stop) > max_stop
        THEN [stop |-> IF direction = "LONG" THEN entry + max_stop ELSE entry - max_stop,
              was_capped |-> TRUE, dist |-> max_stop]
        ELSE [stop |-> calculated_stop, was_capped |-> FALSE,
              dist |-> Abs(entry - calculated_stop)]

\* cap_stop_loss(ticker, entry, calculated_stop, direction)
cap_stop_loss(ticker, entry, calculated_stop, direction) ==
    LET max_stop == max_stop_points(ticker) * 100
    IN  IF Abs(entry - calculated_stop) > max_stop
        THEN [stop |-> IF direction = "LONG" THEN entry - max_stop ELSE entry + max_stop,
              was_capped |-> TRUE, dist |-> max_stop]
        ELSE [stop |-> calculated_stop, was_capped |-> FALSE,
              dist |-> Abs(entry - calculated_stop)]

\* MTFAnalyzer.calculate_risk_reward(entry, stop, target, direction): the score
calculate_risk_reward(entry, stop, target) ==
    LET risk == Abs(entry - stop)
        reward == Abs(target - entry)
    IN  IF entry = 0 \/ stop = 0 \/ target = 0 \/ risk <= 0 THEN 0
        ELSE IF reward >= 2 * risk THEN 100
        ELSE IF 2 * reward >= 3 * risk THEN 80
        ELSE IF reward >= risk THEN 60
        ELSE 30

\* stops and targets with one pair of ratios, 1.5 and 2.0, whatever the tier
generate_levels_fixed(ticker, current_price, atr, bias, targets_tier) ==
    LET raw_stop == IF bias = "LONG"
                    THEN RoundHalfEven(current_price * 2 * atr.den - 3 * atr.num, 2 * atr.den)
                    ELSE RoundHalfEven(current_price * 2 * atr.den + 3 * atr.num, 2 * atr.den)
        capped == cap_stop_loss(ticker, current_price, raw_stop, bias)
        t1_rr == 15
        t2_rr == 20
    IN  [entry |-> current_price, stop |-> capped.stop,
         stop_capped |-> capped.was_capped, stop_pips |-> capped.dist,
         target1 |-> IF bias = "LONG"
                     THEN RoundHalfEven(current_price * 10 + capped.dist * t1_rr, 10)
                     ELSE RoundHalfEven(current_price * 10 - capped.dist * t1_rr, 10),
         target2 |-> IF bias = "LONG"
                     THEN RoundHalfEven(current_price * 10 + capped.dist * t2_rr, 10)
                     ELSE RoundHalfEven(current_price * 10 - capped.dist * t2_rr, 10)]

\* The stop and targets of full_analysis (lines 646-700) for the close of the
\* last 1m candle, the ATR of the 5m buffer, the bias and the tier
\* get_tier_targets() finds: raw stop 1.5 x ATR away rounded to cents, capped at
\* the instrument's maximum, targets at the final stop distance times the
\* tier's ratios.
generate_levels(ticker, current_price, atr, bias, targets_tier) ==
    LET raw_stop == IF bias = "LONG"
                    THEN RoundHalfEven(current_price * 2 * atr.den - 3 * atr.num, 2 * atr.den)
                    ELSE RoundHalfEven(current_price * 2 * atr.den + 3 * atr.num, 2 * atr.den)
        capped == cap_stop_loss(ticker, current_price, raw_stop, bias)
        t1_rr == TIERS[targets_tier].t1_rr
        t2_rr == TIERS[targets_tier].t2_rr
    IN  [entry |-> current_price, stop |-> capped.stop,
         stop_capped |-> capped.was_capped, stop_pips |-> capped.dist,
         target1 |-> IF bias = "LONG"
                     THEN RoundHalfEven(current_price * 10 + capped.dist * t1_rr, 10)
                     ELSE RoundHalfEven(current_price * 10 - capped.dist * t1_rr, 10),
         target2 |-> IF bias = "LONG"
                     THEN RoundHalfEven(current_price * 10 + capped.dist * t2_rr, 10)
                     ELSE RoundHalfEven(current_price * 10 - capped.dist * t2_rr, 10)]

\* a result dictionary whose confidence starts unset (-1) instead of 0
stay_away_unset(tier, reason) ==
    [direction |-> "STAY_AWAY", confidence |-> -1, signal_type |-> "NO_TRADE",
     tier |-> tier, stay_away_reason |-> reason,
     entry |-> 0, stop |-> 0, target1 |-> 0, target2 |-> 0, target |-> 0]

\* the result dictionary of full_analysis before any analysis
stay_away(tier, reason) ==
    [direction |-> "STAY_AWAY", confidence |-> 0, signal_type |-> "NO_TRADE",
     tier |-> tier, stay_away_reason |-> reason,
     entry |-> 0, stop |-> 0, target1 |-> 0, target2 |-> 0, target |-> 0]

\* get_ticker_info(ticker): tick size and tick value in cents, with the
\* fallback to MNQ for a symbol TICK_VALUES does not hold
get_ticker_info(ticker) ==
    CASE ticker = "MES" -> [tick_size |-> 25, tick_value |-> 125]
      [] ticker = "MGC" -> [tick_size |-> 10, tick_value |-> 100]
      [] ticker = "NQ"  -> [tick_size |-> 25, tick_value |-> 500]
      [] ticker = "ES"  -> [tick_size |-> 25, tick_value |-> 1250]
      [] ticker = "GC"  -> [tick_size |-> 10, tick_value |-> 1000]
      [] OTHER          -> [tick_size |-> 25, tick_value |-> 50]

\* calculate_position_size(ticker, entry, stop, risk_amount): prices in cents,
\* risk_amount in dollars.  risk_per_contract = (|entry - stop| / tick_size) *
\* tick_value is the fraction rpc_num / rpc_den cents.
calculate_position_size(ticker, entry, stop, risk_amount) ==
    LET info == get_ticker_info(ticker)
        stop_distance_points == Abs(entry - stop)
        rpc_num == stop_distance_points * info.tick_value
        rpc_den == info.tick_size
    IN  [contracts |-> IF rpc_num > 0
                       THEN Max2(1, (risk_amount * 100 * rpc_den) \div rpc_num)
                       ELSE 1,
         risk_per_contract |-> RoundHalfEven(rpc_num, rpc_den),
         stop_distance_points |-> stop_distance_points]

\* a price in cents is a float exactly when it is a multiple of a quarter
\* (x.00, x.25, x.50, x.75); any other price is stored as the nearest double
exact_float(cents) == cents % 25 = 0

\* calculate_position_size in the floats it is written in: what a call can
\* return.  With both prices exact floats the result is the exact one.  With
\* a price that is not, abs(entry - stop) carries the representation error of
\* the prices; when risk_amount / risk_per_contract is a whole number in exact
\* arithmetic the float quotient can come out just below it, and int()
\* truncates it to one contract less.
calculate_position_size_float(ticker, entry, stop, risk_amount) ==
    LET info == get_ticker_info(ticker)
        exact == calculate_position_size(ticker, entry, stop, risk_amount)
        rpc_num == Abs(entry - stop) * info.tick_value
        rpc_den == info.tick_size
        whole == rpc_num > 0 /\ (risk_amount * 100 * rpc_den) % rpc_num = 0
    IN  IF (exact_float(entry) /\ exact_float(stop)) \/ ~whole
        THEN {exact}
        ELSE {exact, [exact EXCEPT !.contracts = Max2(1, @ - 1)]}

\* a rule that would let two agreeing timeframes out of three decide
majority_bias(d15, d5, d1) ==
    IF Cardinality({k \in 1..3 : <<d15, d5, d1>>[k] = "bullish"}) >= 2 THEN "LONG"
    ELSE IF Cardinality({k \in 1..3 : <<d15, d5, d1>>[k] = "bearish"}) >= 2 THEN "SHORT"
    ELSE "none"

\* The unanimity rule of full_analysis (lines 566-590): the bias, or "none"
unanimous_bias(d15, d5, d1) ==
    IF d15 = "bullish" /\ d5 = "bullish" /\ d1 = "bullish" THEN "LONG"
    ELSE IF d15 = "bearish" /\ d5 = "bearish" /\ d1 = "bearish" THEN "SHORT"
    ELSE "none"

\* MTFAnalyzer.full_analysis(candles_15m, candles_5m, candles_1m, ticker=ticker)
\* on the buffers c15m, c5m and c1m.
\* The function reads the clock several times; reads gives the tier each of
\* these readings finds: reads.tier (get_current_tier), reads.risk
\* (get_tier_risk), reads.blocked (is_trading_blocked), reads.catalyst
\* (check_catalyst_risk) and reads.targets (get_tier_targets).
full_analysis(c15m, c5m, c1m, ticker, reads, is_weekend) ==
    LET tf15 == analyze_trend(c15m)
        tf5 == analyze_trend(c5m)
        tf1 == analyze_trend(c1m)
        bias == unanimous_bias(tf15.direction, tf5.direction, tf1.direction)
        \* structure_score = struct_score_15 * 0.6 + struct_score_5 * 0.4, in tenths
        structure_score == 6 * analyze_structure(c15m)
                             + 4 * analyze_structure(c5m)
        vol_score == analyze_volume(c5m)
        catalyst_score == check_catalyst_risk(reads.catalyst, is_weekend)
        current_price == c1m[Len(c1m)].close
        lv == generate_levels(ticker, current_price, calculate_atr(c5m), bias, reads.targets)
        rr_score == calculate_risk_reward(lv.entry, lv.stop, lv.target2)
        \* total_confidence in thousandths: 40 + structure_score / 100 * 25
        \* + vol_score / 100 * 15 + rr_score / 100 * 10 + catalyst_score / 100 * 10
        total_confidence == 40000 + 25 * structure_score + 150 * vol_score
                              + 100 * rr_score + 100 * catalyst_score
        confidence == RoundHalfEven(Min2(100000, Max2(0, total_confidence)), 1000)
    IN  IF is_trading_blocked(reads.blocked) THEN stay_away(reads.tier, "blocked")
        ELSE IF tf15.direction = "neutral" THEN stay_away(reads.tier, "15m_unclear")
        ELSE IF tf15.strength = "weak" THEN stay_away(reads.tier, "15m_weak")
        ELSE IF tf5.strength = "weak" THEN stay_away(reads.tier, "5m_weak")
        ELSE IF bias = "none" THEN stay_away(reads.tier, "mtf_conflict")
        ELSE IF structure_score < 500 THEN stay_away(reads.tier, "structure")
        ELSE [direction |-> bias, confidence |-> confidence,
              signal_type |-> IF confidence >= 60 THEN bias ELSE "NO_TRADE",
              tier |-> reads.tier, stay_away_reason |-> "none",
              entry |-> lv.entry, stop |-> lv.stop,
              stop_capped |-> lv.stop_capped, stop_pips |-> lv.stop_pips,
              target1 |-> lv.target1, target2 |-> lv.target2, target |-> lv.target2,
              position_size |-> calculate_position_size(ticker, lv.entry, lv.stop,
                                                        TIERS[reads.risk].risk)]

\* ------------------------------------------------------------------------
\* market_levels.py and the webhook pipeline of tradingview_webhook_scanner.py
\* ------------------------------------------------------------------------

\* the instrument of the feed.  Its stop is capped at a whole number of
\* points, so that no target price falls on a tie of round(x, 2), where the
\* floating-point product of the code decides.
Instrument == "MES"

\* the markets of the webhook runs
FeedPatterns == {"rising", "falling", "choppy"}

\* the candle a webhook request carries: the k-th candle of the feed, in cents
WebhookCandle(k, pat) ==
    LET c == FeedCandle(k, pat, FALSE)
    IN  [time |-> c.time, open |-> 100 * c.open, close |-> 100 * c.close,
         high |-> 100 * c.high, low |-> 100 * c.low, volume |-> c.volume]

\* current_time < ORB_END (10:00)
before_orb_end(s) == s \in {"OVERNIGHT", "PREMARKET", "OPENING"}

\* MARKET_OPEN <= current_time < ORB_END
in_opening_range(s) == s = "OPENING"

\* current_time >= MARKET_OPEN (09:30)
after_market_open(s) == s \notin {"OVERNIGHT", "PREMARKET"}

\* no entry for a date in MarketLevels.levels[ticker]; a level of 0 is None
NoLevels ==
    [exists |-> FALSE, orb_high |-> 0, orb_low |-> 0, pdh |-> 0, pdl |-> 0,
     session_high |-> 0, session_low |-> 0]

\* MarketLevels.update_from_candles(ticker, candles) on date, at a time in
\* segment s.  The candles of the store carry their time under 'time', the
\* function reads 'timestamp': candle_time is None for every one of them, so
\* each candle counts as a candle of today at the current time.
update_from_candles(lv, date, s, candles) ==
    LET highs == {candles[i].high : i \in 1..Len(candles)}
        lows == {candles[i].low : i \in 1..Len(candles)}
        hi == CHOOSE h \in highs : \A x \in highs : x <= h
        lo == CHOOSE l \in lows : \A x \in lows : l <= x
        cur == IF lv[date].exists THEN lv[date] ELSE [NoLevels EXCEPT !.exists = TRUE]
        orb == IF in_opening_range(s)
               THEN [cur EXCEPT !.orb_high = IF @ = 0 \/ hi > @ THEN hi ELSE @,
                                !.orb_low = IF @ = 0 \/ lo < @ THEN lo ELSE @]
               ELSE cur
        ses == IF after_market_open(s)
               THEN [orb EXCEPT !.session_high = IF @ = 0 \/ hi > @ THEN hi ELSE @,
                                !.session_low = IF @ = 0 \/ lo < @ THEN lo ELSE @]
               ELSE orb
        pd == IF date - 1 \in DOMAIN lv /\ lv[date - 1].exists
              THEN [ses EXCEPT !.pdh = lv[date - 1].session_high,
                               !.pdl = lv[date - 1].session_low]
              ELSE ses
    IN  [lv EXCEPT ![date] = pd]

\* get_daily_bias without the wait for the end of the opening range
get_daily_bias_nowait(lv, date, s, current_price) ==
    LET orb_high == lv[date].orb_high
        orb_low == lv[date].orb_low
        orb_range == orb_high - orb_low
    IN  IF orb_high = 0 \/ orb_low = 0 THEN "UNKNOWN"
        ELSE IF 20 * (current_price - orb_high) > orb_range THEN "LONG"
        ELSE IF 20 * (orb_low - current_price) > orb_range THEN "SHORT"
        ELSE "NEUTRAL"

\* MarketLevels.get_daily_bias(ticker, current_price): the bias
get_daily_bias(lv, date, s, current_price) ==
    LET orb_high == lv[date].orb_high
        orb_low == lv[date].orb_low
        orb_range == orb_high - orb_low
    IN  IF before_orb_end(s) THEN "WAITING"
        ELSE IF orb_high = 0 \/ orb_low = 0 THEN "UNKNOWN"
        ELSE IF 20 * (current_price - orb_high) > orb_range THEN "LONG"
        ELSE IF 20 * (orb_low - current_price) > orb_range THEN "SHORT"
        ELSE "NEUTRAL"

\* MarketLevels.check_bias_alignment(ticker, signal_direction, current_price)
check_bias_alignment(lv, date, s, signal_direction, current_price) ==
    LET bias == get_daily_bias(lv, date, s, current_price)
    IN  IF bias = "WAITING" THEN FALSE
        ELSE IF bias \in {"UNKNOWN", "NEUTRAL"} THEN TRUE
        ELSE bias = signal_direction

\* MarketLevels.check_entry_safety(ticker, entry_price, direction), with the
\* buffer of 15 points
check_entry_safety(lv, date, entry_price, direction) ==
    LET pdh == lv[date].pdh
        pdl == lv[date].pdl
    IN  IF pdh = 0 \/ pdl = 0 THEN TRUE
        ELSE IF direction = "LONG" THEN ~(Abs(entry_price - pdh) < 1500)
        ELSE ~(Abs(entry_price - pdl) < 1500)

\* get_tick_size(ticker), in cents
get_tick_size(ticker) == IF ticker \in {"MGC", "GC"} THEN 10 ELSE 25

\* validate_signal(signal, ticker): is_valid.  news_blackout is what
\* check_news_blackout() finds in its calendar.  The check for missing price
\* levels is left out: a signal that passed the direction check has them all.
validate_signal(signal, ticker, news_blackout, lv, date, s) ==
    LET risk == Abs(signal.entry - signal.stop)
        reward == Abs(signal.takeProfit - signal.entry)
    IN  IF news_blackout THEN FALSE
        ELSE IF signal.confidence < 80 THEN FALSE
        ELSE IF signal.direction \in {"no_trade", "STAY_AWAY"} THEN FALSE
        ELSE IF risk <= 0 \/ reward < 2 * risk THEN FALSE
        ELSE IF Abs(signal.currentPrice - signal.entry) > 15 * get_tick_size(ticker) THEN FALSE
        ELSE IF ~check_bias_alignment(lv, date, s, signal.direction, signal.currentPrice) THEN FALSE
        ELSE check_entry_safety(lv, date, signal.entry, signal.direction)

\* database.save_signal(signal_data): the row is inserted with the default
\* outcome PENDING
save_signal(rows, signal_data) ==
    Append(rows, PendingRow([ticker |-> signal_data.ticker,
                             direction |-> signal_data.direction,
                             entry_price |-> signal_data.entry,
                             stop_price |-> signal_data.stop,
                             target_price |-> signal_data.takeProfit]))

NoWebhook ==
    [status |-> "none", valid |-> FALSE, blocked |-> FALSE,
     direction |-> "NONE", confidence |-> 0, tier |-> "NONE"]

\* nothing of the webhook pipeline has run
WIdle ==
    /\ levels = [d \in Dates |-> NoLevels]
    /\ last_analysis_time = "never"
    /\ mtf_result = NoResult
    /\ last_webhook = NoWebhook

\* ------------------------------------------------------------------------
\* The clock readings and the stop, target and size computations at rest
\* ------------------------------------------------------------------------

NoPlan == [entry |-> 0]
NoSizing == [ticker |-> "NONE"]

NoPlanIn == [ticker |-> "NONE"]

NoRead == [tier |-> "NONE", fallback |-> FALSE]

\* no clock reading and no stop/target/size computation has run
PIdle ==
    /\ clock = 0
    /\ tier_read = NoRead
    /\ plan_in = NoPlanIn
    /\ plan = NoPlan
    /\ sizing = NoSizing

GInit ==
    /\ apex_config = DEFAULT_APEX_CONFIG
    /\ apex_state = FreshState(DEFAULT_APEX_CONFIG)
    /\ today = 1
    /\ emitted = [dty \in Dates \X AlertTypes |-> 0]
    /\ lastCheck = NoCheck
    /\ seenBand = [d \in Dates |-> {}]
    /\ lastDrawdown = NoCheck
    /\ seenDrawdown = [d \in Dates |-> {}]
    /\ lastOp = [op |-> "init", pnl |-> 0, date |-> 0]
    /\ nEvents = 0

\* record_trade_result(ticker, pnl): a P&L event.  The date is read before the
\* lock is taken, the drawdown and consistency checks read the clock again
\* inside it, so midnight may pass in between (today_key = today + 1).
RecordTradeResult(pnl, today_key) ==
    /\ nEvents < MaxEvents
    /\ today_key \in {today, today + 1} \cap Dates
    /\ LET r == record_trade_result(apex_state, apex_config, today, today_key, pnl)
           pre == StateAfterUpdates(apex_state, today, pnl)
           daily == check_daily_loss_limit(pre, apex_config, today)
       IN  /\ apex_state' = r.st
           /\ emitted' = Emit(r)
           /\ lastCheck' = Checked(pre, apex_config, today, daily.alerts)
           /\ seenBand' = Seen(pre, apex_config, today)
           /\ lastDrawdown' = CheckedDrawdown(daily.st, apex_config, today_key)
           /\ seenDrawdown' = SeenDrawdown(daily.st, apex_config, today_key)
    /\ lastOp' = [op |-> "record", pnl |-> pnl, date |-> today]
    /\ today' = today_key
    /\ nEvents' = nEvents + 1
    /\ UNCHANGED <<apex_config, notG>>

\* check_all_rules() called on its own
CheckAllRules ==
    /\ nEvents < MaxEvents
    /\ LET r == check_all_rules(apex_state, apex_config, today, today)
           daily == check_daily_loss_limit(apex_state, apex_config, today)
       IN  /\ apex_state' = r.st
           /\ emitted' = Emit(r)
           /\ lastCheck' = Checked(apex_state, apex_config, today, daily.alerts)
           /\ seenBand' = Seen(apex_state, apex_config, today)
           /\ lastDrawdown' = CheckedDrawdown(daily.st, apex_config, today)
           /\ seenDrawdown' = SeenDrawdown(daily.st, apex_config, today)
    /\ lastOp' = [op |-> "check_all", pnl |-> 0, date |-> today]
    /\ nEvents' = nEvents + 1
    /\ UNCHANGED <<apex_config, today, notG>>

\* check_daily_loss_limit(date_key) called on its own, for any date
CheckDailyLossLimit(date_key) ==
    /\ nEvents < MaxEvents
    /\ LET r == check_daily_loss_limit(apex_state, apex_config, date_key)
       IN  /\ apex_state' = r.st
           /\ emitted' = Emit([alerts |-> r.alerts,
                               dated |-> [i \in 1..Len(r.alerts) |-> date_key]])
           /\ lastCheck' = Checked(apex_state, apex_config, date_key, r.alerts)
           /\ seenBand' = Seen(apex_state, apex_config, date_key)
    /\ lastOp' = [op |-> "check_daily", pnl |-> 0, date |-> date_key]
    /\ nEvents' = nEvents + 1
    /\ UNCHANGED <<apex_config, today, lastDrawdown, seenDrawdown, notG>>

\* reset_apex_state()
ResetApexState ==
    /\ nEvents < MaxEvents
    /\ apex_state' = FreshState(apex_config)
    /\ emitted' = [dty \in Dates \X AlertTypes |-> 0]
    /\ lastOp' = [op |-> "reset", pnl |-> 0, date |-> today]
    /\ nEvents' = nEvents + 1
    /\ UNCHANGED <<apex_config, today, lastCheck, seenBand, lastDrawdown, seenDrawdown, notG>>

\* The partial configurations posted to update_apex_config.
ConfigUpdates ==
    { [k \in {"max_daily_loss"} |-> 2000],
      [k \in {"max_daily_loss"} |-> 2500],
      [k \in {"account_size"} |-> 50000],
      [k \in {"account_size", "initial_balance"} |-> IF k = "account_size" THEN 50000 ELSE 49000] }

\* update_apex_config(new_config)
UpdateApexConfig(new_config) ==
    /\ nEvents < MaxEvents
    /\ apex_config' = [k \in DOMAIN apex_config |->
                          IF k \in DOMAIN new_config THEN new_config[k] ELSE apex_config[k]]
    /\ apex_state' =
          IF "account_size" \in DOMAIN new_config
          THEN LET b == IF "initial_balance" \in DOMAIN new_config
                        THEN new_config["initial_balance"]
                        ELSE new_config["account_size"]
               IN  [apex_state EXCEPT !.current_balance = b, !.high_water_mark = b]
          ELSE apex_state
    /\ lastOp' = [op |-> IF "account_size" \in DOMAIN new_config
                         THEN "config_account" ELSE "config",
                  pnl |-> 0, date |-> today]
    /\ nEvents' = nEvents + 1
    /\ UNCHANGED <<today, emitted, lastCheck, seenBand, lastDrawdown, seenDrawdown, notG>>

\* the clock passes midnight
NextDay ==
    /\ today < MaxDay
    /\ today' = today + 1
    /\ UNCHANGED <<apex_state, apex_config, emitted, lastCheck, seenBand, lastDrawdown,
                   seenDrawdown, lastOp, nEvents, notG>>

GNext ==
    \/ \E pnl \in PnlValues, tk \in Dates : RecordTradeResult(pnl, tk)
    \/ CheckAllRules
    \/ \E d \in Dates : CheckDailyLossLimit(d)
    \/ ResetApexState
    \/ \E c \in ConfigUpdates : UpdateApexConfig(c)
    \/ NextDay

\* ------------------------------------------------------------------------
\* apex_rules.py called from several threads: the statements of each operation
\* are steps; apex_lock is taken where the code takes it
\* ------------------------------------------------------------------------
MaxApexThreads == 2
ApexThreads == 1..MaxApexThreads

NoReturn == [daily_pnl |-> 0, current_balance |-> 0, partial |-> FALSE, blocked |-> FALSE]
NoCall == [op |-> "none", pnl_dollars |-> 0, date_key |-> 0, new_config |-> <<>>,
           returned |-> NoReturn]

XIdle ==
    /\ apex_lock = NoThread
    /\ apex_pc = [t \in ApexThreads |-> "idle"]
    /\ apex_loc = [t \in ApexThreads |-> NoCall]

\* the positions at which a thread has applied some of the writes of its
\* operation and not yet all of them
MidUpdate == {"balance", "hwm", "check", "cfg_hwm"}

PartiallyUpdated(t) == \E u \in ApexThreads \ {t} : apex_pc[u] \in MidUpdate

guardianHistory == <<emitted, lastCheck, seenBand, lastDrawdown, seenDrawdown>>

\* record_trade_result, lines 181-187: initialize_state_if_needed() finds
\* current_balance set and writes nothing; date_key and pnl_dollars are computed
RtrCall(t, pnl) ==
    /\ apex_pc[t] = "idle"
    /\ nEvents < MaxEvents
    /\ apex_loc' = [apex_loc EXCEPT ![t] = [NoCall EXCEPT !.op = "record",
                                                           !.pnl_dollars = pnl,
                                                           !.date_key = today]]
    /\ apex_pc' = [apex_pc EXCEPT ![t] = "acquire"]
    /\ nEvents' = nEvents + 1
    /\ UNCHANGED <<apex_state, apex_config, today, guardianHistory, lastOp, apex_lock,
                   tvars, cvars, avars, wvars, pvars, ivars>>

\* line 191: with apex_lock
RtrAcquire(t) ==
    /\ apex_pc[t] = "acquire"
    /\ apex_lock = NoThread
    /\ apex_lock' = t
    /\ apex_pc' = [apex_pc EXCEPT ![t] = "daily"]
    /\ UNCHANGED <<gvars, apex_loc, tvars, cvars, avars, wvars, pvars, ivars>>

\* lines 193-195: apex_state['daily_pnl'][date_key] += pnl_dollars
RtrDaily(t) ==
    /\ apex_pc[t] = "daily"
    /\ apex_state' = [apex_state EXCEPT
                         !.daily_pnl[apex_loc[t].date_key] = @ + apex_loc[t].pnl_dollars]
    /\ apex_pc' = [apex_pc EXCEPT ![t] = "balance"]
    /\ UNCHANGED <<apex_config, today, guardianHistory, lastOp, nEvents, apex_lock,
                   apex_loc, tvars, cvars, avars, wvars, pvars, ivars>>

\* line 198: apex_state['current_balance'] += pnl_dollars
RtrBalance(t) ==
    /\ apex_pc[t] = "balance"
    /\ apex_state' = [apex_state EXCEPT !.current_balance = @ + apex_loc[t].pnl_dollars]
    /\ apex_pc' = [apex_pc EXCEPT ![t] = "hwm"]
    /\ UNCHANGED <<apex_config, today, guardianHistory, lastOp, nEvents, apex_lock,
                   apex_loc, tvars, cvars, avars, wvars, pvars, ivars>>

\* lines 201-202: the high water mark follows the balance up
RtrHwm(t) ==
    /\ apex_pc[t] = "hwm"
    /\ apex_state' = IF apex_state.current_balance > apex_state.high_water_mark
                     THEN [apex_state EXCEPT !.high_water_mark = apex_state.current_balance]
                     ELSE apex_state
    /\ apex_pc' = [apex_pc EXCEPT ![t] = "check"]
    /\ UNCHANGED <<apex_config, today, guardianHistory, lastOp, nEvents, apex_lock,
                   apex_loc, tvars, cvars, avars, wvars, pvars, ivars>>

\* lines 205-207: check_all_rules(date_key), save_state, and the lock is released
RtrCheck(t) ==
    /\ apex_pc[t] = "check"
    /\ LET date_key == apex_loc[t].date_key
           r == check_all_rules(apex_state, apex_config, date_key, today)
           daily == check_daily_loss_limit(apex_state, apex_config, date_key)
       IN  /\ apex_state' = r.st
           /\ emitted' = Emit(r)
           /\ lastCheck' = Checked(apex_state, apex_config, date_key, daily.alerts)
           /\ seenBand' = Seen(apex_state, apex_config, date_key)
           /\ lastDrawdown' = CheckedDrawdown(daily.st, apex_config, today)
           /\ seenDrawdown' = SeenDrawdown(daily.st, apex_config, today)
           /\ lastOp' = [op |-> "record", pnl |-> apex_loc[t].pnl_dollars, date |-> date_key]
    /\ apex_lock' = NoThread
    /\ apex_pc' = [apex_pc EXCEPT ![t] = "return"]
    /\ UNCHANGED <<apex_config, today, nEvents, apex_loc, tvars, cvars, avars, wvars, pvars, ivars>>

\* lines 209-214: the returned dict is built from apex_state after the with
\* block was left
RtrReturn(t) ==
    /\ apex_pc[t] = "return"
    /\ apex_loc' = [apex_loc EXCEPT ![t].returned =
                       [daily_pnl |-> apex_state.daily_pnl[apex_loc[t].date_key],
                        current_balance |-> apex_state.current_balance,
                        partial |-> PartiallyUpdated(t), blocked |-> FALSE]]
    /\ apex_pc' = [apex_pc EXCEPT ![t] = "idle"]
    /\ UNCHANGED <<gvars, apex_lock, tvars, cvars, avars, wvars, pvars, ivars>>

\* reset_apex_state, line 144: with apex_lock
ResetAcquire(t) ==
    /\ apex_pc[t] = "idle"
    /\ nEvents < MaxEvents
    /\ apex_lock = NoThread
    /\ apex_lock' = t
    /\ apex_pc' = [apex_pc EXCEPT ![t] = "reset"]
    /\ apex_loc' = [apex_loc EXCEPT ![t] = [NoCall EXCEPT !.op = "reset"]]
    /\ nEvents' = nEvents + 1
    /\ UNCHANGED <<apex_state, apex_config, today, guardianHistory, lastOp,
                   tvars, cvars, avars, wvars, pvars, ivars>>

\* ResetAssign that puts the balance and the high water mark back and keeps
\* daily_pnl and alerts_sent
ResetAssign_keep_daily(t) ==
    /\ apex_pc[t] = "reset"
    /\ apex_state' = [apex_state EXCEPT !.current_balance = apex_config.initial_balance,
                                        !.high_water_mark = apex_config.initial_balance]
    /\ lastOp' = [op |-> "reset", pnl |-> 0, date |-> today]
    /\ apex_lock' = NoThread
    /\ apex_pc' = [apex_pc EXCEPT ![t] = "idle"]
    /\ UNCHANGED <<apex_config, today, guardianHistory, nEvents, apex_loc,
                   tvars, cvars, avars, wvars, pvars, ivars>>

\* lines 145-153: apex_state is bound to a fresh dict, saved, the lock released
ResetAssign(t) ==
    /\ apex_pc[t] = "reset"
    /\ apex_state' = FreshState(apex_config)
    /\ emitted' = [dty \in Dates \X AlertTypes |-> 0]
    /\ lastOp' = [op |-> "reset", pnl |-> 0, date |-> today]
    /\ apex_lock' = NoThread
    /\ apex_pc' = [apex_pc EXCEPT ![t] = "idle"]
    /\ UNCHANGED <<apex_config, today, lastCheck, seenBand, lastDrawdown, seenDrawdown,
                   nEvents, apex_loc, tvars, cvars, avars, wvars, pvars, ivars>>

\* update_apex_config, lines 127-129: with apex_lock, apex_config.update
ConfigAcquire(t, new_config) ==
    /\ apex_pc[t] = "idle"
    /\ nEvents < MaxEvents
    /\ apex_lock = NoThread
    /\ apex_config' = [k \in DOMAIN apex_config |->
                          IF k \in DOMAIN new_config THEN new_config[k] ELSE apex_config[k]]
    /\ apex_loc' = [apex_loc EXCEPT ![t] = [NoCall EXCEPT !.op = "config",
                                                           !.new_config = new_config]]
    /\ IF "account_size" \in DOMAIN new_config
       THEN /\ apex_lock' = t
            /\ apex_pc' = [apex_pc EXCEPT ![t] = "cfg_balance"]
       ELSE /\ apex_lock' = NoThread
            /\ apex_pc' = [apex_pc EXCEPT ![t] = "idle"]
    /\ lastOp' = [op |-> IF "account_size" \in DOMAIN new_config
                         THEN "config_account" ELSE "config",
                  pnl |-> 0, date |-> today]
    /\ nEvents' = nEvents + 1
    /\ UNCHANGED <<apex_state, today, guardianHistory, tvars, cvars, avars, wvars, pvars, ivars>>

\* line 133: current_balance = new_config.get('initial_balance', account_size)
ConfigBalance(t) ==
    /\ apex_pc[t] = "cfg_balance"
    /\ LET new_config == apex_loc[t].new_config
           b == IF "initial_balance" \in DOMAIN new_config
                THEN new_config["initial_balance"]
                ELSE new_config["account_size"]
       IN  apex_state' = [apex_state EXCEPT !.current_balance = b]
    /\ apex_pc' = [apex_pc EXCEPT ![t] = "cfg_hwm"]
    /\ UNCHANGED <<apex_config, today, guardianHistory, lastOp, nEvents, apex_lock,
                   apex_loc, tvars, cvars, avars, wvars, pvars, ivars>>

\* lines 134-136: high_water_mark = current_balance, save_state, lock released
ConfigHwm(t) ==
    /\ apex_pc[t] = "cfg_hwm"
    /\ apex_state' = [apex_state EXCEPT !.high_water_mark = apex_state.current_balance]
    /\ apex_lock' = NoThread
    /\ apex_pc' = [apex_pc EXCEPT ![t] = "idle"]
    /\ UNCHANGED <<apex_config, today, guardianHistory, lastOp, nEvents,
                   apex_loc, tvars, cvars, avars, wvars, pvars, ivars>>

XNext ==
    \E t \in ApexThreads :
        \/ \E pnl \in PnlValues : RtrCall(t, pnl)
        \/ RtrAcquire(t)
        \/ RtrDaily(t)
        \/ RtrBalance(t)
        \/ RtrHwm(t)
        \/ RtrCheck(t)
        \/ RtrReturn(t)
        \/ ResetAcquire(t)
        \/ ResetAssign(t)
        \/ \E c \in ConfigUpdates : ConfigAcquire(t, c)
        \/ ConfigBalance(t)
        \/ ConfigHwm(t)

\* record_trade_result and reset_apex_state only, over two days
RNext ==
    \/ \E t \in ApexThreads :
          \/ \E pnl \in PnlValues : RtrCall(t, pnl)
          \/ RtrAcquire(t)
          \/ RtrDaily(t)
          \/ RtrBalance(t)
          \/ RtrHwm(t)
          \/ RtrCheck(t)
          \/ RtrReturn(t)
          \/ ResetAcquire(t)
          \/ ResetAssign(t)
    \/ NextDay

InitApexThreads == GInit /\ TIdle /\ CIdle /\ AIdle /\ WIdle /\ PIdle /\ XIdle /\ IIdle

SpecApexThreads == InitApexThreads /\ [][XNext]_vars

\* should_block_trading() called by thread t (GET /api/apex/should-block, or
\* webhook() before it logs a valid signal): initialize_state_if_needed() finds
\* current_balance set; the state is read without the lock
ShouldBlockTrading(t) ==
    /\ apex_pc[t] = "idle"
    /\ apex_loc' = [apex_loc EXCEPT ![t] =
                       [NoCall EXCEPT !.op = "should_block",
                                      !.returned.blocked =
                                          should_block_trading(apex_state, apex_config, today)]]
    /\ UNCHANGED <<gvars, apex_lock, apex_pc, tvars, cvars, avars, wvars, pvars, ivars>>

BNext ==
    \/ GNext
    \/ \E t \in ApexThreads : ShouldBlockTrading(t)

InitBlocking == GInit /\ TIdle /\ CIdle /\ AIdle /\ WIdle /\ PIdle /\ XIdle /\ IIdle

SpecBlocking == InitBlocking /\ [][BNext]_vars

InitBooks == GInit /\ TIdle /\ CIdle /\ AIdle /\ WIdle /\ PIdle /\ XIdle /\ IIdle

SpecBooks == InitBooks /\ [][RNext]_vars

\* check_consistency_rule() called on its own on an account with a history of
\* several days
ConsistencyDays == 4
ConsistencyDates == 1..ConsistencyDays
ConsistencyPnl == {-500, 0, 100, 300, 700}

\* The account after ConsistencyDays days of trading, losing days first: the
\* balance is the initial one plus the pnl of all days, no rule of the first
\* two has fired, and the consistency warning of today is sent or not.
QInit ==
    /\ apex_config = DEFAULT_APEX_CONFIG
    /\ today \in Dates
    /\ \E daily_pnl \in [ConsistencyDates -> ConsistencyPnl], sent \in BOOLEAN :
          LET balance == DEFAULT_APEX_CONFIG.initial_balance
                             + SumPositive(daily_pnl, ConsistencyDates)
                             + SumPositive([d \in ConsistencyDates |-> IF daily_pnl[d] < 0
                                                                       THEN daily_pnl[d] ELSE 0],
                                           ConsistencyDates)
          IN  apex_state =
                 [high_water_mark |-> IF balance > DEFAULT_APEX_CONFIG.initial_balance
                                      THEN balance ELSE DEFAULT_APEX_CONFIG.initial_balance,
                  current_balance |-> balance,
                  daily_pnl |-> daily_pnl,
                  alerts_sent |-> [d \in ConsistencyDates |->
                                      IF sent /\ d = today THEN {"consistency_warning"}
                                      ELSE {}]]
    /\ emitted = [dty \in Dates \X AlertTypes |-> 0]
    /\ lastCheck = NoCheck
    /\ seenBand = [d \in Dates |-> {}]
    /\ lastDrawdown = NoCheck
    /\ seenDrawdown = [d \in Dates |-> {}]
    /\ lastOp = [op |-> "init", pnl |-> 0, date |-> 0]
    /\ nEvents = 0

\* check_consistency_rule(); lastOp keeps the day the alert names
CheckConsistencyRule ==
    /\ nEvents < MaxEvents
    /\ LET r == check_consistency_rule(apex_state, apex_config, today)
       IN  /\ apex_state' = r.st
           /\ emitted' = Emit([alerts |-> r.alerts,
                               dated |-> [i \in 1..Len(r.alerts) |-> today]])
           /\ lastOp' = [op |-> "check_consistency", pnl |-> 0, date |-> r.worst]
    /\ nEvents' = nEvents + 1
    /\ UNCHANGED <<apex_config, today, lastCheck, seenBand, lastDrawdown, seenDrawdown, notG>>

QNext == CheckConsistencyRule

InitConsistency == QInit /\ TIdle /\ CIdle /\ AIdle /\ WIdle /\ PIdle /\ XIdle /\ IIdle

SpecConsistency == InitConsistency /\ [][QNext]_vars

InitGuardian == GInit /\ TIdle /\ CIdle /\ AIdle /\ WIdle /\ PIdle /\ XIdle /\ IIdle

SpecGuardian == InitGuardian /\ [][GNext]_vars

\* ------------------------------------------------------------------------
\* outcome_tracker.py: tracker threads and check cycles over database.py
\* ------------------------------------------------------------------------
TInit ==
    /\ signals = [i \in SignalIds |-> PendingRow(Recommendation(i))]
    /\ strategy_stats = [wins |-> 0, losses |-> 0]
    /\ daily_stats = [total_signals |-> 0, wins |-> 0, losses |-> 0, total_pnl_ticks |-> 0]
    /\ db_lock = NoThread
    /\ price \in {NoPrice, 100}
    /\ pc = [t \in Threads |-> "off"]
    /\ loc = [t \in Threads |-> NoLocals]
    /\ tracked_signals = {}
    /\ tracking_active = TRUE
    /\ applied = [i \in SignalIds |-> 0]
    /\ recorded = [i \in SignalIds |-> 0]

\* record_trade_result(ticker, pnl) as the tracker and the check cycle call it
ApexRecord(ticker, pnl) ==
    LET dollars == ticks_to_dollars(ticker, pnl)
        r == record_trade_result(apex_state, apex_config, today, today, dollars)
        pre == StateAfterUpdates(apex_state, today, dollars)
        daily == check_daily_loss_limit(pre, apex_config, today)
    IN  /\ apex_state' = r.st
        /\ emitted' = Emit(r)
        /\ lastCheck' = Checked(pre, apex_config, today, daily.alerts)
        /\ seenBand' = Seen(pre, apex_config, today)
        /\ lastDrawdown' = CheckedDrawdown(daily.st, apex_config, today)
        /\ seenDrawdown' = SeenDrawdown(daily.st, apex_config, today)
        /\ lastOp' = [op |-> "record", pnl |-> dollars, date |-> today]
        /\ UNCHANGED <<apex_config, today, nEvents>>

\* get_current_price(ticker): candle_storage first, without any lock; with no
\* candle there it goes to load_candles, which takes db_lock (the model's
\* database holds no candles and yfinance is unreachable: None).
PriceReadable(t) == price # NoPrice \/ lock_acquire(db_lock, t)

\* start_tracking(signal_id, signal_data) from resume_pending_tracking()
StartTracking(id) ==
    /\ pc[id] = "off"
    /\ lock_acquire(db_lock, id)
    /\ id \in {get_pending_signals(signals)[k] : k \in 1..Len(get_pending_signals(signals))}
    /\ id \notin tracked_signals
    /\ tracked_signals' = tracked_signals \cup {id}
    /\ pc' = [pc EXCEPT ![id] = "loop"]
    /\ loc' = [loc EXCEPT ![id] = [NoLocals EXCEPT !.sig = id]]
    /\ UNCHANGED <<signals, strategy_stats, daily_stats, db_lock, price, tracking_active,
                   applied, recorded, gvars, notT>>

\* track_signal: one pass of the while loop, up to the call of
\* update_signal_outcome; is_expired is what the clock says of
\* datetime.now() - start_time > max_duration.  When tracking_active is off
\* the loop ends and the thread removes itself from tracked_signals.
TrackSignal(id, is_expired) ==
    /\ pc[id] = "loop"
    /\ IF ~tracking_active
       THEN /\ pc' = [pc EXCEPT ![id] = "off"]
            /\ loc' = [loc EXCEPT ![id] = NoLocals]
            /\ tracked_signals' = tracked_signals \ {id}
       ELSE IF is_expired
       THEN /\ pc' = [pc EXCEPT ![id] = "update"]
            /\ loc' = [loc EXCEPT ![id].outcome = "DISCARDED", ![id].price = NoPrice,
                                  ![id].pnl = 0]
            /\ UNCHANGED tracked_signals
       ELSE /\ PriceReadable(id)
            /\ LET r == check_signal_outcome(signals[id], price)
               IN  IF r.outcome # "NONE"
                   THEN /\ pc' = [pc EXCEPT ![id] = "update"]
                        /\ loc' = [loc EXCEPT ![id].outcome = r.outcome,
                                              ![id].price = r.price, ![id].pnl = r.pnl]
                   ELSE UNCHANGED <<pc, loc>>
            /\ UNCHANGED tracked_signals
    /\ UNCHANGED <<signals, strategy_stats, daily_stats, db_lock, price,
                   tracking_active, applied, recorded, gvars, notT>>

\* check_all_pending_outcomes(): pending = get_pending_signals()
CheckAllPendingOutcomes(c) ==
    /\ pc[c] = "off"
    /\ lock_acquire(db_lock, c)
    /\ LET pending == get_pending_signals(signals)
       IN  IF pending = <<>>
           THEN UNCHANGED <<pc, loc>>
           ELSE /\ pc' = [pc EXCEPT ![c] = "iter"]
                /\ loc' = [loc EXCEPT ![c] = [NoLocals EXCEPT !.pending = pending, !.idx = 1]]
    /\ UNCHANGED <<signals, strategy_stats, daily_stats, db_lock, price, tracked_signals,
                   tracking_active, applied, recorded, gvars, notT>>

\* the for loop of check_all_pending_outcomes moves to the next signal, or returns
NextSignal(c, l) ==
    IF l.idx + 1 > Len(l.pending)
    THEN /\ pc' = [pc EXCEPT ![c] = "off"]
         /\ loc' = [loc EXCEPT ![c] = NoLocals]
    ELSE /\ pc' = [pc EXCEPT ![c] = "iter"]
         /\ loc' = [loc EXCEPT ![c] = [l EXCEPT !.idx = l.idx + 1]]

\* CheckSignal with record_trade_result called as soon as the evaluation gives
\* an outcome, before update_signal_outcome
CheckSignal_record_first(c) ==
    /\ pc[c] = "iter"
    /\ PriceReadable(c)
    /\ LET id == loc[c].pending[loc[c].idx]
           r == check_signal_outcome(signals[id], price)
       IN  IF r.outcome # "NONE"
           THEN /\ pc' = [pc EXCEPT ![c] = "update"]
                /\ loc' = [loc EXCEPT ![c].sig = id, ![c].outcome = r.outcome,
                                      ![c].price = r.price, ![c].pnl = r.pnl]
                /\ ApexRecord(signals[id].ticker, r.pnl)
           ELSE NextSignal(c, loc[c]) /\ UNCHANGED gvars
    /\ UNCHANGED <<signals, strategy_stats, daily_stats, db_lock, price, tracked_signals,
                   tracking_active, applied, recorded, notT>>

\* check_all_pending_outcomes(): one signal of the snapshot, up to the call of
\* update_signal_outcome
CheckSignal(c) ==
    /\ pc[c] = "iter"
    /\ PriceReadable(c)
    /\ LET id == loc[c].pending[loc[c].idx]
           r == check_signal_outcome(signals[id], price)
       IN  IF r.outcome # "NONE"
           THEN /\ pc' = [pc EXCEPT ![c] = "update"]
                /\ loc' = [loc EXCEPT ![c].sig = id, ![c].outcome = r.outcome,
                                      ![c].price = r.price, ![c].pnl = r.pnl]
           ELSE NextSignal(c, loc[c])
    /\ UNCHANGED <<signals, strategy_stats, daily_stats, db_lock, price, tracked_signals,
                   tracking_active, applied, recorded, gvars, notT>>

\* update_signal_outcome(id, outcome, price, pnl) and what its caller does when
\* it returns.  The row and strategy_versions are written and committed under
\* db_lock; update_daily_stats is then called with db_lock still held and takes
\* db_lock itself.  If that acquire cannot succeed the thread waits in it for
\* ever, holding db_lock.  If it succeeds the call returns and the caller goes
\* on: record_trade_result for a WIN or a LOSS, then break and
\* del tracked_signals[signal_id] (tracker) or the next signal (check cycle).
UpdateSignalOutcome(t) ==
    /\ pc[t] = "update"
    /\ lock_acquire(db_lock, t)
    /\ LET id == loc[t].sig
           outcome == loc[t].outcome
       IN  /\ signals' = [signals EXCEPT ![id] =
                             update_signal_outcome(@, outcome, loc[t].price, loc[t].pnl)]
           /\ strategy_stats' = update_strategy_version(strategy_stats, outcome)
           /\ applied' = [applied EXCEPT ![id] = @ + (IF outcome \in {"WIN", "LOSS"} THEN 1 ELSE 0)]
           /\ IF lock_acquire(t, t)
              THEN /\ daily_stats' = update_daily_stats(daily_stats, outcome, loc[t].pnl)
                   /\ db_lock' = NoThread
                   /\ IF outcome = "DISCARDED"
                      THEN UNCHANGED <<recorded, gvars>>
                      ELSE /\ recorded' = [recorded EXCEPT ![id] = @ + 1]
                           /\ ApexRecord(signals[id].ticker, loc[t].pnl)
                   /\ IF t \in SignalIds
                      THEN /\ pc' = [pc EXCEPT ![t] = "off"]
                           /\ loc' = [loc EXCEPT ![t] = NoLocals]
                           /\ tracked_signals' = tracked_signals \ {t}
                      ELSE /\ NextSignal(t, loc[t])
                           /\ UNCHANGED tracked_signals
              ELSE /\ db_lock' = t
                   /\ pc' = [pc EXCEPT ![t] = "blocked"]
                   /\ UNCHANGED <<daily_stats, recorded, loc, tracked_signals, gvars>>
    /\ UNCHANGED <<price, tracking_active, notT>>

\* store_candle: a new last 1m close; /api/candles/clear: none
PriceChange(p) ==
    /\ p # price
    /\ price' = p
    /\ UNCHANGED <<signals, strategy_stats, daily_stats, db_lock, pc, loc, tracked_signals,
                   tracking_active, applied, recorded, gvars, notT>>

\* stop_all_tracking()
StopAllTracking ==
    /\ tracking_active
    /\ tracking_active' = FALSE
    /\ UNCHANGED <<signals, strategy_stats, daily_stats, db_lock, price, pc, loc,
                   tracked_signals, applied, recorded, gvars, notT>>

\* The process is restarted: the module state of outcome_tracker and database
\* is as at import, the database file and the saved account state remain.
Restart ==
    /\ \E t \in Threads : pc[t] # "off"
    /\ db_lock' = NoThread
    /\ pc' = [t \in Threads |-> "off"]
    /\ loc' = [t \in Threads |-> NoLocals]
    /\ tracked_signals' = {}
    /\ tracking_active' = TRUE
    /\ UNCHANGED <<signals, strategy_stats, daily_stats, price, applied, recorded, gvars, notT>>

\* The arguments update_signal_outcome is called with when it is called on its
\* own: any outcome string, a price or None, a pnl in points
OutcomeArguments == {"WIN", "LOSS", "DISCARDED", "PENDING"}
ExitPrices == {NoPrice, 120}
PnlTicks == {-10, 20}
MaxUpdates == 3

\* update_signal_outcome(signal_id, outcome, exit_price, pnl_ticks) called by
\* thread t on any row, PENDING or not: the row and strategy_versions are
\* written and committed, then update_daily_stats takes db_lock, which t holds
CallUpdateSignalOutcome(t, signal_id, outcome, exit_price, pnl_ticks) ==
    /\ pc[t] = "off"
    /\ strategy_stats.wins + strategy_stats.losses < MaxUpdates
    /\ lock_acquire(db_lock, t)
    /\ signals' = [signals EXCEPT ![signal_id] =
                      update_signal_outcome(@, outcome, exit_price, pnl_ticks)]
    /\ strategy_stats' = update_strategy_version(strategy_stats, outcome)
    /\ applied' = [applied EXCEPT ![signal_id] =
                      @ + (IF outcome \in {"WIN", "LOSS"} THEN 1 ELSE 0)]
    /\ IF lock_acquire(t, t)
       THEN /\ daily_stats' = update_daily_stats(daily_stats, outcome, pnl_ticks)
            /\ db_lock' = NoThread
            /\ UNCHANGED pc
       ELSE /\ db_lock' = t
            /\ pc' = [pc EXCEPT ![t] = "blocked"]
            /\ UNCHANGED daily_stats
    /\ UNCHANGED <<price, loc, tracked_signals, tracking_active, recorded, gvars, notT>>

UNext ==
    \/ \E t \in Checkers, signal_id \in SignalIds, outcome \in OutcomeArguments,
          exit_price \in ExitPrices, pnl_ticks \in PnlTicks :
          CallUpdateSignalOutcome(t, signal_id, outcome, exit_price, pnl_ticks)
    \/ Restart

InitUpdates == GInit /\ TIdle /\ CIdle /\ AIdle /\ WIdle /\ PIdle /\ XIdle /\ IIdle

SpecUpdates == InitUpdates /\ [][UNext]_vars

TNext ==
    \/ \E id \in SignalIds : StartTracking(id)
    \/ \E id \in SignalIds, is_expired \in BOOLEAN : TrackSignal(id, is_expired)
    \/ \E c \in Checkers : CheckAllPendingOutcomes(c)
    \/ \E c \in Checkers : CheckSignal(c)
    \/ \E t \in Threads : UpdateSignalOutcome(t)
    \/ \E p \in PriceValues \cup {NoPrice} : PriceChange(p)
    \/ StopAllTracking
    \/ Restart

InitTracker == GInit /\ TInit /\ CIdle /\ AIdle /\ WIdle /\ PIdle /\ XIdle /\ IIdle

SpecTracker == InitTracker /\ [][TNext]_vars

\* The tracker threads and the check cycles of one run of the process, with
\* the periodic checker told apart from the cycle run on demand
PeriodicChecker == MaxSignals + 1

\* start_outcome_checker, checker_loop: one pass of `while tracking_active`.
\* Between two passes the thread sleeps (pc "off"); a pass that finds
\* tracking_active off ends the thread and does nothing else.
CheckerLoop(c) ==
    /\ tracking_active
    /\ CheckAllPendingOutcomes(c)

HNext ==
    \/ \E id \in SignalIds : StartTracking(id)
    \/ \E id \in SignalIds, is_expired \in BOOLEAN : TrackSignal(id, is_expired)
    \/ CheckerLoop(PeriodicChecker)
    \/ \E c \in Checkers \ {PeriodicChecker} : CheckAllPendingOutcomes(c)
    \/ \E c \in Checkers : CheckSignal(c)
    \/ \E t \in Threads : UpdateSignalOutcome(t)
    \/ \E p \in PriceValues \cup {NoPrice} : PriceChange(p)
    \/ StopAllTracking

InitShutdown == GInit /\ TInit /\ CIdle /\ AIdle /\ WIdle /\ PIdle /\ XIdle /\ IIdle

\* Threads run: a tracker thread comes to the next pass of its loop, a check
\* cycle goes through its snapshot, a thread at update_signal_outcome takes
\* db_lock when it is free.
ShutdownFairness ==
    /\ \A id \in SignalIds : WF_vars(\E is_expired \in BOOLEAN : TrackSignal(id, is_expired))
    /\ \A c \in Checkers : WF_vars(CheckSignal(c))
    /\ \A t \in Threads : WF_vars(UpdateSignalOutcome(t))

SpecShutdown == InitShutdown /\ [][HNext]_vars /\ ShutdownFairness

\* ------------------------------------------------------------------------
\* outcome_tracker.py: start_tracking statement by statement, called from
\* several threads; tracked_signals is a plain dict and no lock is taken
\* ------------------------------------------------------------------------
MaxCallers == 2
MaxTrackerThreads == 3

\* the threads calling start_tracking, and the Thread objects it can create
Callers == 11 .. 10 + MaxCallers
TrackerThreads == 21 .. 20 + MaxTrackerThreads

\* a Thread object start_tracking has not created yet
Unborn(s) == pc[s] = "unborn"

\* a tracker thread that was started and has not ended
Running(s) == pc[s] \in {"loop", "blocked", "remove"}

StartInit ==
    /\ signals = [i \in SignalIds |-> PendingRow(Recommendation(i))]
    /\ strategy_stats = [wins |-> 0, losses |-> 0]
    /\ daily_stats = [total_signals |-> 0, wins |-> 0, losses |-> 0, total_pnl_ticks |-> 0]
    /\ db_lock = NoThread
    /\ price = 100
    /\ pc = [t \in Callers \cup TrackerThreads |->
                IF t \in Callers THEN "idle" ELSE "unborn"]
    /\ loc = [t \in Callers \cup TrackerThreads |-> NoLocals]
    /\ tracked_signals = {}
    /\ tracking_active = TRUE
    /\ applied = [i \in SignalIds |-> 0]
    /\ recorded = [i \in SignalIds |-> 0]

\* start_tracking(signal_id, signal_data), line 193: the membership test
StartCall(c, signal_id) ==
    /\ pc[c] = "idle"
    /\ IF signal_id \in tracked_signals
       THEN UNCHANGED <<pc, loc>>
       ELSE /\ pc' = [pc EXCEPT ![c] = "create"]
            /\ loc' = [loc EXCEPT ![c].sig = signal_id]
    /\ UNCHANGED <<signals, strategy_stats, daily_stats, db_lock, price, tracked_signals,
                   tracking_active, applied, recorded, gvars, notT>>

\* lines 196-201: thread = threading.Thread(...); tracked_signals[signal_id] = thread
RegisterThread(c) ==
    /\ pc[c] = "create"
    /\ \E s \in TrackerThreads :
          /\ Unborn(s)
          /\ \A u \in TrackerThreads : Unborn(u) => s <= u
          /\ pc' = [pc EXCEPT ![c] = "start", ![s] = "created"]
          /\ loc' = [loc EXCEPT ![c].idx = s, ![s].sig = loc[c].sig]
    /\ tracked_signals' = tracked_signals \cup {loc[c].sig}
    /\ UNCHANGED <<signals, strategy_stats, daily_stats, db_lock, price,
                   tracking_active, applied, recorded, gvars, notT>>

\* line 202: thread.start(), and the call returns
ThreadStart(c) ==
    /\ pc[c] = "start"
    /\ pc' = [pc EXCEPT ![c] = "idle", ![loc[c].idx] = "loop"]
    /\ loc' = [loc EXCEPT ![c] = NoLocals]
    /\ UNCHANGED <<signals, strategy_stats, daily_stats, db_lock, price, tracked_signals,
                   tracking_active, applied, recorded, gvars, notT>>

\* track_signal in thread s: one pass of the while loop.  With tracking_active
\* off the loop is left.  An expired or resolved recommendation goes through
\* update_signal_outcome, which commits the row and then waits in
\* update_daily_stats for the db_lock it holds; were that acquire to succeed,
\* the call would return and the loop would be left by break.
TrackerPass(s, is_expired) ==
    /\ pc[s] = "loop"
    /\ LET id == loc[s].sig
           r == IF is_expired
                THEN [outcome |-> "DISCARDED", price |-> NoPrice, pnl |-> 0]
                ELSE check_signal_outcome(signals[id], price)
       IN  IF ~tracking_active
           THEN /\ pc' = [pc EXCEPT ![s] = "remove"]
                /\ UNCHANGED <<signals, strategy_stats, daily_stats, db_lock, applied,
                               recorded, gvars>>
           ELSE IF r.outcome = "NONE"
           THEN /\ PriceReadable(s)
                /\ UNCHANGED <<pc, signals, strategy_stats, daily_stats, db_lock, applied,
                               recorded, gvars>>
           ELSE /\ is_expired \/ PriceReadable(s)
                /\ lock_acquire(db_lock, s)
                /\ signals' = [signals EXCEPT ![id] =
                                  update_signal_outcome(@, r.outcome, r.price, r.pnl)]
                /\ strategy_stats' = update_strategy_version(strategy_stats, r.outcome)
                /\ applied' = [applied EXCEPT ![id] =
                                  @ + (IF r.outcome \in {"WIN", "LOSS"} THEN 1 ELSE 0)]
                /\ IF lock_acquire(s, s)
                   THEN /\ daily_stats' = update_daily_stats(daily_stats, r.outcome, r.pnl)
                        /\ db_lock' = NoThread
                        /\ pc' = [pc EXCEPT ![s] = "remove"]
                        /\ IF r.outcome = "DISCARDED"
                           THEN UNCHANGED <<recorded, gvars>>
                           ELSE /\ recorded' = [recorded EXCEPT ![id] = @ + 1]
                                /\ ApexRecord(signals[id].ticker, r.pnl)
                   ELSE /\ db_lock' = s
                        /\ pc' = [pc EXCEPT ![s] = "blocked"]
                        /\ UNCHANGED <<daily_stats, recorded, gvars>>
    /\ UNCHANGED <<price, loc, tracked_signals, tracking_active, notT>>

\* lines 186-188: if signal_id in tracked_signals: del tracked_signals[signal_id],
\* and the thread ends (a del that finds the key gone raises KeyError in the
\* thread, which ends it as well)
RemoveTracked(s) ==
    /\ pc[s] = "remove"
    /\ tracked_signals' = tracked_signals \ {loc[s].sig}
    /\ pc' = [pc EXCEPT ![s] = "ended"]
    /\ UNCHANGED <<signals, strategy_stats, daily_stats, db_lock, price, loc,
                   tracking_active, applied, recorded, gvars, notT>>

StartNext ==
    \/ \E c \in Callers, signal_id \in SignalIds : StartCall(c, signal_id)
    \/ \E c \in Callers : RegisterThread(c)
    \/ \E c \in Callers : ThreadStart(c)
    \/ \E s \in TrackerThreads, is_expired \in BOOLEAN : TrackerPass(s, is_expired)
    \/ \E s \in TrackerThreads : RemoveTracked(s)
    \/ \E p \in PriceValues : PriceChange(p)
    \/ StopAllTracking

InitStart == GInit /\ StartInit /\ CIdle /\ AIdle /\ WIdle /\ PIdle /\ XIdle /\ IIdle

SpecStart == InitStart /\ [][StartNext]_vars

\* The recommendations while the price stays between stop and target: no
\* candle moves the last close, no one calls stop_all_tracking().
ENext ==
    \/ \E id \in SignalIds : StartTracking(id)
    \/ \E id \in SignalIds, is_expired \in BOOLEAN : TrackSignal(id, is_expired)
    \/ \E c \in Checkers : CheckAllPendingOutcomes(c)
    \/ \E c \in Checkers : CheckSignal(c)
    \/ \E t \in Threads : UpdateSignalOutcome(t)
    \/ Restart

InitExpiry == GInit /\ TInit /\ CIdle /\ AIdle /\ WIdle /\ PIdle /\ XIdle /\ IIdle

\* Time passes and threads run: a tracker thread that keeps looping comes to
\* the pass where datetime.now() - start_time > max_duration; the check cycle
\* is run again and again (checker_loop, /api/check-outcomes) and goes through
\* its snapshot; a thread at update_signal_outcome takes db_lock when it is
\* free.  Nothing in the code schedules start_tracking or a restart.
ExpiryFairness ==
    /\ \A id \in SignalIds : WF_vars(TrackSignal(id, TRUE))
    /\ WF_vars(\E c \in Checkers : CheckAllPendingOutcomes(c))
    /\ \A c \in Checkers : WF_vars(CheckSignal(c))
    /\ \A t \in Threads : WF_vars(UpdateSignalOutcome(t))

SpecExpiry == InitExpiry /\ [][ENext]_vars /\ ExpiryFairness

\* ------------------------------------------------------------------------
\* tradingview_webhook_scanner.py: the candle store, fed with 1m candles
\* ------------------------------------------------------------------------
CInit ==
    /\ candles_1m = <<>>
    /\ candles_5m = <<>>
    /\ candles_15m = <<>>
    /\ ingested = <<>>
    /\ pattern \in Patterns

\* store_candle(ticker, "1m", candle_data): append to the 1m deque, then
\* aggregate_candles(ticker)
StoreCandle(spike) ==
    /\ Len(ingested) < MaxIngest
    /\ spike => Len(ingested) < FreeCandles
    /\ LET candle_data == FeedCandle(Len(ingested) + 1, pattern, spike)
           c1m == deque_append(candles_1m, candle_data, CANDLE_LIMIT_1M)
           agg == aggregate_candles(c1m, candles_5m, candles_15m)
       IN  /\ candles_1m' = c1m
           /\ candles_5m' = agg[1]
           /\ candles_15m' = agg[2]
           /\ ingested' = Append(ingested, candle_data)
    /\ UNCHANGED <<pattern, notC>>

\* clear_candles(): /api/candles/clear empties every deque
ClearCandles ==
    /\ ingested # <<>>
    /\ candles_1m' = <<>>
    /\ candles_5m' = <<>>
    /\ candles_15m' = <<>>
    /\ ingested' = <<>>
    /\ UNCHANGED <<pattern, notC>>

CNext ==
    \/ \E spike \in BOOLEAN : StoreCandle(spike)
    \/ ClearCandles

InitCandles == GInit /\ TIdle /\ CInit /\ AIdle /\ WIdle /\ PIdle /\ XIdle /\ IIdle

SpecCandles == InitCandles /\ [][CNext]_vars

\* float("inf") and float("-inf"): above and below every price of the feed.
\* max(), min() and the comparisons of the code treat them as such.
Infinity == 1000000000
NegInfinity == 0 - Infinity

PriceFields == {"open", "high", "low", "close"}

IsFinite(x) == NegInfinity < x /\ x < Infinity

\* a candle all of whose prices are finite
FiniteCandle(c) == \A f \in PriceFields : IsFinite(c[f])

\* the length of the runs that carry a non-finite candle
ShortIngest == 16

\* webhook() with a 1m candle of the feed, as far as store_candle
StoreCandleShort(spike) ==
    /\ Len(ingested) < ShortIngest
    /\ StoreCandle(spike)

\* webhook() with a 1m candle whose price `field` is Infinity or -Infinity in
\* the request (json accepts the literals, float() the strings "inf" and
\* "-inf"): candle_data is built with float(data.get(field, 0)) and handed to
\* store_candle, which appends it to the 1m deque, saves it to candle_history
\* and aggregates.  A run carries one such candle.
StoreNonFinite(field, value) ==
    /\ Len(ingested) < ShortIngest
    /\ \A i \in 1..Len(ingested) : FiniteCandle(ingested[i])
    /\ LET candle_data == [FeedCandle(Len(ingested) + 1, pattern, FALSE) EXCEPT ![field] = value]
           c1m == deque_append(candles_1m, candle_data, CANDLE_LIMIT_1M)
           agg == aggregate_candles(c1m, candles_5m, candles_15m)
       IN  /\ candles_1m' = c1m
           /\ candles_5m' = agg[1]
           /\ candles_15m' = agg[2]
           /\ ingested' = Append(ingested, candle_data)
    /\ UNCHANGED <<pattern, notC>>

INext ==
    \/ \E spike \in BOOLEAN : StoreCandleShort(spike)
    \/ \E field \in PriceFields, value \in {Infinity, NegInfinity} : StoreNonFinite(field, value)

InitIngest == GInit /\ TIdle /\ CInit /\ AIdle /\ WIdle /\ PIdle /\ XIdle /\ IIdle

SpecIngest == InitIngest /\ [][INext]_vars

InitIngestThreads == GInit /\ TIdle /\ CIdle /\ AIdle /\ WIdle /\ PIdle /\ XIdle /\ IIdle

SpecIngestThreads == InitIngestThreads /\ [][TNextIngest]_vars

\* ------------------------------------------------------------------------
\* The analysis and the clock
\* ------------------------------------------------------------------------
AInit ==
    /\ now \in Segments
    /\ weekend \in BOOLEAN
    /\ analysed = NoInputs
    /\ result = NoResult

\* The tiers the readings of the clock by one full_analysis call find when
\* the call starts in segment s: crossing = 0 when no boundary passes during
\* the call, otherwise the boundary passes just before reading number
\* crossing + 1 (the readings in order: tier, risk, blocked, catalyst,
\* targets).
ClockReads(s, crossing) ==
    LET at(k) == get_current_tier(IF crossing # 0 /\ k > crossing THEN NextSegment(s) ELSE s)
    IN  [tier |-> at(1), risk |-> at(2), blocked |-> at(3), catalyst |-> at(4),
         targets |-> at(5)]

Crossings == 0..4

\* analyze_ticker(candles_15m, candles_5m, candles_1m, ticker=ticker)
FullAnalysis(w15, w5, w1, ticker, crossing) ==
    /\ result = NoResult
    /\ LET reads == ClockReads(now, crossing)
       IN  /\ analysed' = [c15m |-> w15, c5m |-> w5, c1m |-> w1, ticker |-> ticker,
                           reads |-> reads, weekend |-> weekend]
           /\ result' = full_analysis(Windows[w15], Windows[w5], Windows[w1],
                                      ticker, reads, weekend)
    /\ crossing # 0 => now # "NIGHT"
    /\ now' = IF crossing = 0 THEN now ELSE NextSegment(now)
    /\ UNCHANGED <<weekend, notA>>

\* the caller takes the result
Return ==
    /\ result # NoResult
    /\ result' = NoResult
    /\ analysed' = NoInputs
    /\ UNCHANGED <<now, weekend, notA>>

\* the clock passes a boundary of the day between two calls
ClockTick ==
    /\ result = NoResult
    /\ now # "NIGHT"
    /\ now' = NextSegment(now)
    /\ UNCHANGED <<weekend, analysed, result, notA>>

\* midnight: the date changes, to a working day or to a day of the weekend
Midnight ==
    /\ result = NoResult
    /\ now = "NIGHT"
    /\ today < MaxDay
    /\ now' = NextSegment(now)
    /\ today' = today + 1
    /\ weekend' \in BOOLEAN
    /\ UNCHANGED <<analysed, result, apex_state, apex_config, emitted, lastCheck,
                   seenBand, lastDrawdown, seenDrawdown, lastOp, nEvents, tvars, cvars,
                   wvars, pvars, xvars, ivars>>

ANext ==
    \/ \E w15 \in WindowNames, w5 \in WindowNames, w1 \in Windows1m,
          ticker \in Tickers, crossing \in Crossings :
          FullAnalysis(w15, w5, w1, ticker, crossing)
    \/ Return
    \/ ClockTick
    \/ Midnight

InitAnalysis == GInit /\ TIdle /\ CIdle /\ AInit /\ WIdle /\ PIdle /\ XIdle /\ IIdle

SpecAnalysis == InitAnalysis /\ [][ANext]_vars

\* ------------------------------------------------------------------------
\* The session clock, minute by minute
\* ------------------------------------------------------------------------
KInit ==
    /\ clock \in 0..(MinutesPerDay - 1)
    /\ tier_read = NoRead
    /\ plan_in = NoPlanIn
    /\ plan = NoPlan
    /\ sizing = NoSizing

\* get_current_tier()
GetCurrentTier ==
    /\ tier_read' = get_current_tier_at(clock)
    /\ UNCHANGED <<clock, plan_in, plan, sizing, gvars, tvars, cvars, avars, wvars, xvars, ivars>>

\* a minute passes
Minute ==
    /\ clock' = (clock + 1) % MinutesPerDay
    /\ tier_read' = NoRead
    /\ UNCHANGED <<plan_in, plan, sizing, gvars, tvars, cvars, avars, wvars, xvars, ivars>>

KNext == GetCurrentTier \/ Minute

InitClock == GInit /\ TIdle /\ CIdle /\ AIdle /\ WIdle /\ KInit /\ XIdle /\ IIdle

SpecClock == InitClock /\ [][KNext]_vars

\* ------------------------------------------------------------------------
\* Stops, targets and position size over their inputs
\* ------------------------------------------------------------------------

\* the symbols of TICK_VALUES and one it does not hold
PlanTickers == {"MNQ", "MES", "MGC", "NQ", "ES", "GC", "CL"}

\* closes of the last 1m candle, in cents
PlanEntries == {2100000, 100025, 502050}

\* ATR values of the 5m buffer as fractions num/den of cents (at least one
\* point, full_analysis replaces a smaller one by 5 points): 5 and 10 points,
\* values that put 1.5 x ATR at, just above and far above the maximum stop of
\* an instrument
PlanAtrs ==
    { [num |-> 500, den |-> 1], [num |-> 1000, den |-> 1], [num |-> 2000, den |-> 5],
      [num |-> 2001, den |-> 5], [num |-> 3000, den |-> 5], [num |-> 5001, den |-> 5],
      [num |-> 8670, den |-> 13], [num |-> 20000, den |-> 7] }

\* the tiers get_tier_risk() and get_tier_targets() may find
PlanTiers == TierNames

PInit ==
    /\ clock = 0
    /\ tier_read = NoRead
    /\ plan_in \in [ticker : PlanTickers, entry : PlanEntries, atr : PlanAtrs,
                     bias : {"LONG", "SHORT"}, targets_tier : PlanTiers,
                     risk_tier : PlanTiers \ {"BLOCKED"}]
    /\ plan = NoPlan
    /\ sizing = NoSizing

\* the part of full_analysis from the entry to the position size (lines
\* 646-733) on the inputs plan_in
GenerateLevels ==
    /\ plan = NoPlan
    /\ plan' = generate_levels(plan_in.ticker, plan_in.entry, plan_in.atr, plan_in.bias,
                               plan_in.targets_tier)
    /\ UNCHANGED <<clock, tier_read, plan_in, sizing, gvars, tvars, cvars, avars, wvars, xvars, ivars>>

\* calculate_position_size on the entry and stop generated
PositionSize ==
    /\ plan # NoPlan
    /\ "position_size" \notin DOMAIN plan
    /\ plan' = [k \in DOMAIN plan \cup {"position_size"} |->
                  IF k = "position_size"
                  THEN calculate_position_size(plan_in.ticker, plan.entry, plan.stop,
                                               TIERS[plan_in.risk_tier].risk)
                  ELSE plan[k]]
    /\ UNCHANGED <<clock, tier_read, plan_in, sizing, gvars, tvars, cvars, avars, wvars, xvars, ivars>>

PNext == GenerateLevels \/ PositionSize

InitLevels == GInit /\ TIdle /\ CIdle /\ AIdle /\ WIdle /\ PInit /\ XIdle /\ IIdle

SpecLevels == InitLevels /\ [][PNext]_vars

\* ------------------------------------------------------------------------
\* calculate_position_size over its arguments
\* ------------------------------------------------------------------------
\* stop minus entry, in cents: at the entry, a tick away, on both sides, wide
SizingStopOffsets == {0, 10, 25, -25, 150, 1000, 1500, -1500, 2500, 12500}

\* risk_amount in dollars: the tiers' budgets, and budgets below one contract
SizingRisks == {0, 1, 30, 100, 125, 175, 200, 250}

SInit ==
    /\ clock = 0
    /\ tier_read = NoRead
    /\ plan_in = NoPlanIn
    /\ plan = NoPlan
    /\ sizing \in { [ticker |-> t, entry |-> e, stop |-> e + d, risk_amount |-> r] :
                       t \in PlanTickers, e \in PlanEntries, d \in SizingStopOffsets,
                       r \in SizingRisks }

\* calculate_position_size(ticker, entry, stop, risk_amount)
CalculatePositionSize ==
    /\ "position_size" \notin DOMAIN sizing
    /\ \E position \in calculate_position_size_float(sizing.ticker, sizing.entry,
                                                      sizing.stop, sizing.risk_amount) :
          sizing' = [k \in DOMAIN sizing \cup {"position_size"} |->
                        IF k = "position_size" THEN position ELSE sizing[k]]
    /\ UNCHANGED <<clock, tier_read, plan_in, plan, gvars, tvars, cvars, avars, wvars, xvars, ivars>>

SNext == CalculatePositionSize

InitSizing == GInit /\ TIdle /\ CIdle /\ AIdle /\ WIdle /\ SInit /\ XIdle /\ IIdle

SpecSizing == InitSizing /\ [][SNext]_vars

\* ------------------------------------------------------------------------
\* The webhook pipeline
\* ------------------------------------------------------------------------

\* the P&L event booked while the pipeline runs: a loss of the whole daily limit
WebhookPnl == {-2500}

\* The server starts at some time of a working day with an account that has not
\* traded, an empty table of recommendations and, in the candle store, the 1m
\* history load_candle_history read from the database.
WInit ==
    /\ pattern \in FeedPatterns
    /\ ingested = [k \in 1..HistoryLen |-> WebhookCandle(k, pattern)]
    /\ candles_1m = ingested
    /\ candles_5m = <<>>
    /\ candles_15m = <<>>
    /\ now \in Segments
    /\ weekend = FALSE
    /\ analysed = NoInputs
    /\ result = NoResult
    /\ WIdle

\* the signal the pipeline builds from the result of the analysis
signal_of(r) ==
    [ticker |-> Instrument, direction |-> r.direction, confidence |-> r.confidence,
     entry |-> r.entry, stop |-> r.stop, takeProfit |-> r.target,
     currentPrice |-> r.entry]

\* webhook(): a POST /webhook request with the next 1m candle of the feed, run
\* at a time in segment now.  interval_elapsed: ANALYSIS_INTERVAL_MINUTES have
\* passed since last_analysis_time.
Webhook(news_blackout, interval_elapsed) ==
    /\ Len(ingested) < HistoryLen + MaxWebhooks
    /\ last_analysis_time = "never" => interval_elapsed
    \* store_candle
    /\ ingested' = Append(ingested, WebhookCandle(Len(ingested) + 1, pattern))
    /\ candles_1m' = deque_append(candles_1m, ingested'[Len(ingested')], CANDLE_LIMIT_1M)
    /\ candles_5m' = aggregate_candles(candles_1m', candles_5m, candles_15m)[1]
    /\ candles_15m' = aggregate_candles(candles_1m', candles_5m, candles_15m)[2]
    /\ IF Len(candles_1m') < 50 \/ Len(candles_5m') < 3 \/ Len(candles_15m') < 2
       THEN /\ last_webhook' = [NoWebhook EXCEPT !.status = "stored"]
            /\ UNCHANGED <<mtf_result, levels, last_analysis_time, signals>>
       ELSE IF ~interval_elapsed
       THEN /\ last_webhook' = [NoWebhook EXCEPT !.status = "skipped"]
            /\ UNCHANGED <<mtf_result, levels, last_analysis_time, signals>>
       ELSE /\ last_analysis_time' = "set"
            /\ mtf_result' = full_analysis(candles_15m', candles_5m', candles_1m', Instrument,
                                 ClockReads(now, 0), weekend)
            /\ levels' = update_from_candles(levels, today, now,
                                             candles_1m' \o candles_5m' \o candles_15m')
            \* lines 2605-2631: should_block_trading() decides what is logged,
            \* the valid signal is saved either way
            /\ last_webhook' =
                  [status |-> "analysed",
                   valid |-> validate_signal(signal_of(mtf_result'), Instrument,
                                             news_blackout, levels', today, now),
                   blocked |-> should_block_trading(apex_state, apex_config, today),
                   direction |-> mtf_result'.direction,
                   confidence |-> mtf_result'.confidence,
                   tier |-> mtf_result'.tier]
            /\ signals' = IF last_webhook'.valid
                          THEN save_signal(signals, signal_of(mtf_result'))
                          ELSE signals
    /\ UNCHANGED <<pattern, strategy_stats, daily_stats, db_lock, price, pc, loc,
                   tracked_signals, tracking_active, applied, recorded, gvars, avars,
                   pvars, xvars, ivars>>

WNext ==
    \/ \E news_blackout \in BOOLEAN, interval_elapsed \in BOOLEAN :
          Webhook(news_blackout, interval_elapsed)
    \/ \E pnl \in WebhookPnl : RecordTradeResult(pnl, today)
    \/ ClockTick
    \/ Midnight

InitWebhook == GInit /\ TEmpty /\ WInit /\ PIdle /\ XIdle /\ IIdle

SpecWebhook == InitWebhook /\ [][WNext]_vars

\* ------------------------------------------------------------------------
\* market_levels.py over a week: the levels kept per date, fed by
\* run_analysis() from the candle buffers and by load_levels_from_database()
\* at the start of the server
\* ------------------------------------------------------------------------
MaxCalDay == 4
MaxCalCandles == 2

\* the dates of the run; date 1 is a Friday
CalendarDays == 1..MaxCalDay

\* date.weekday(): Monday is 0, Saturday 5, Sunday 6
weekday(d) == (d + 3) % 7

\* The feed: the futures session runs from Sunday evening to Friday afternoon
FeedOpen(d, s) ==
    IF weekday(d) = 5 THEN FALSE
    ELSE IF weekday(d) = 6 THEN s \in {"EVENING", "NIGHT"}
    ELSE IF weekday(d) = 4 THEN s \notin {"EVENING", "NIGHT"}
    ELSE TRUE

\* the position of a segment in the day
segment_index(s) ==
    CASE s = "OVERNIGHT" -> 0
      [] s = "PREMARKET" -> 1
      [] s = "OPENING" -> 2
      [] s = "PRIME" -> 3
      [] s = "MIDDAY" -> 4
      [] s = "CLOSE" -> 5
      [] s = "EVENING" -> 6
      [] s = "NIGHT" -> 7

\* high and low of the candle the feed brings on date d in segment s: the
\* market of the run rises through the day and gaps up from day to day
CalCandle(d, s) ==
    [high |-> 1000 + 100 * d + 10 * segment_index(s) + 5,
     low |-> 1000 + 100 * d + 10 * segment_index(s) - 5]

RECURSIVE skip_weekend(_)
\* load_levels_from_database: while yesterday.weekday() >= 5: yesterday -= 1 day
skip_weekend(d) == IF d >= 1 /\ weekday(d) >= 5 THEN skip_weekend(d - 1) ELSE d

\* SELECT MAX(high), MIN(low), COUNT(*) FROM candle_history WHERE the row is in rows
select_max_min(rows) ==
    IF rows = {} THEN [high |-> 0, low |-> 0, candle_count |-> 0]
    ELSE [high |-> CHOOSE h \in {r.high : r \in rows} : \A r \in rows : r.high <= h,
          low |-> CHOOSE l \in {r.low : r \in rows} : \A r \in rows : l <= r.low,
          candle_count |-> Cardinality(rows)]

\* load_levels_from_database() for one ticker, into the levels of a new
\* process: history is the candle_history table, s the segment of the clock
load_levels_from_database(history, date, s) ==
    LET rows == {history[i] : i \in 1..Len(history)}
        yesterday == skip_weekend(date - 1)
        pd == select_max_min({r \in rows : r.date = yesterday})
        orb == select_max_min({r \in rows : r.date = date /\ r.seg = "OPENING"})
        ses == select_max_min({r \in rows : r.date = date /\ after_market_open(r.seg)})
        lv0 == [d \in CalendarDays |-> NoLevels]
        lv1 == IF pd.candle_count > 0 /\ pd.high # 0 /\ pd.low # 0
               THEN [lv0 EXCEPT ![date] = [NoLevels EXCEPT !.exists = TRUE,
                                                           !.pdh = pd.high, !.pdl = pd.low]]
               ELSE lv0
        lv2 == IF ~before_orb_end(s) /\ orb.candle_count > 0 /\ orb.high # 0 /\ orb.low # 0
               THEN [lv1 EXCEPT ![date].exists = TRUE, ![date].orb_high = orb.high,
                                ![date].orb_low = orb.low]
               ELSE lv1
    IN  IF ses.high # 0 /\ lv2[date].exists
        THEN [lv2 EXCEPT ![date].session_high = ses.high, ![date].session_low = ses.low]
        ELSE lv2

\* the candle rows load_candle_history() puts into the 1m buffer
load_candle_history(history) ==
    [i \in 1..Len(history) |-> [high |-> history[i].high, low |-> history[i].low]]

CalInit ==
    /\ now = "OVERNIGHT"
    /\ weekend = FALSE
    /\ analysed = NoInputs
    /\ result = NoResult
    /\ levels = [d \in CalendarDays |-> NoLevels]
    /\ last_analysis_time = "never"
    /\ mtf_result = NoResult
    /\ last_webhook = NoWebhook
    /\ pattern = "choppy"
    /\ ingested = <<>>
    /\ candles_1m = <<>>
    /\ candles_5m = <<>>
    /\ candles_15m = <<>>

calFrame == <<apex_state, apex_config, emitted, lastCheck, seenBand, lastDrawdown,
              seenDrawdown, lastOp, nEvents, tvars, pvars, xvars, ivars, analysed, result,
              last_analysis_time, mtf_result, last_webhook, pattern, candles_5m,
              candles_15m>>

\* webhook() while the history is being built (fewer than 50 1m candles):
\* store_candle puts the candle into the buffer and into candle_history
StoreFeedCandle ==
    /\ Len(ingested) < MaxCalCandles
    /\ FeedOpen(today, now)
    /\ ingested' = Append(ingested, [date |-> today, seg |-> now,
                                      high |-> CalCandle(today, now).high,
                                      low |-> CalCandle(today, now).low])
    /\ candles_1m' = deque_append(candles_1m, CalCandle(today, now), CANDLE_LIMIT_1M)
    /\ UNCHANGED <<today, now, weekend, levels, calFrame>>

\* run_analysis(ticker): the levels are updated from the buffers; with fewer
\* than 10 candles the result is insufficient_data
RunAnalysis ==
    /\ candles_1m # <<>>
    /\ levels' = update_from_candles(levels, today, now,
                                     candles_1m \o candles_5m \o candles_15m)
    /\ UNCHANGED <<today, now, weekend, ingested, candles_1m, calFrame>>

\* the server is started: market_levels is imported and loads the levels,
\* load_candle_history() fills the buffer from the database
StartServer ==
    /\ levels' = load_levels_from_database(ingested, today, now)
    /\ candles_1m' = load_candle_history(ingested)
    /\ UNCHANGED <<today, now, weekend, ingested, calFrame>>

\* the clock passes a boundary of the day
CalClockTick ==
    /\ now # "NIGHT"
    /\ now' = NextSegment(now)
    /\ UNCHANGED <<today, weekend, levels, ingested, candles_1m, calFrame>>

\* midnight
CalMidnight ==
    /\ now = "NIGHT"
    /\ today < MaxCalDay
    /\ now' = NextSegment(now)
    /\ today' = today + 1
    /\ weekend' = (weekday(today + 1) >= 5)
    /\ UNCHANGED <<levels, ingested, candles_1m, calFrame>>

CalNext ==
    \/ StoreFeedCandle
    \/ RunAnalysis
    \/ StartServer
    \/ CalClockTick
    \/ CalMidnight

InitCalendar == GInit /\ TEmpty /\ CalInit /\ PIdle /\ XIdle /\ IIdle

SpecCalendar == InitCalendar /\ [][CalNext]_vars


\* ------------------------------------------------------------------------
\* Claims about the guardian
\* ------------------------------------------------------------------------

\* C4: between account resets every alert type is emitted at most once per
\* date, whatever sequence of P&L events and rule checks runs.
C4_AlertAtMostOncePerDate ==
    \A dty \in Dates \X AlertTypes : emitted[dty] <= 1

\* C4 witness: a daily-loss check ran again on a date whose warning had
\* already been sent, with the day still in the warning band, and returned nothing.
C4_Witness ==
    /\ lastCheck.band = "warn"
    /\ ~lastCheck.first
    /\ lastCheck.alerts = {}
    /\ emitted[<<lastCheck.date, "daily_loss_warning">>] = 1

\* C9: a P&L event adds pnl to daily_pnl[date] and current_balance and raises
\* high_water_mark to max(high_water_mark, current_balance); so
\* high_water_mark >= current_balance always, and high_water_mark does not
\* decrease in any step but an account reset (reset_apex_state, or
\* update_apex_config given a new account_size).
C9_PnlEventUpdatesAccount ==
    /\ [](apex_state.high_water_mark >= apex_state.current_balance)
    /\ [][ /\ (nEvents' = nEvents + 1 /\ lastOp'.op = "record") =>
                LET d == lastOp'.date
                    p == lastOp'.pnl
                IN  /\ apex_state'.daily_pnl[d] = apex_state.daily_pnl[d] + p
                    /\ \A e \in Dates \ {d} : apex_state'.daily_pnl[e] = apex_state.daily_pnl[e]
                    /\ apex_state'.current_balance = apex_state.current_balance + p
                    /\ apex_state'.high_water_mark =
                          IF apex_state.high_water_mark >= apex_state'.current_balance
                          THEN apex_state.high_water_mark ELSE apex_state'.current_balance
           /\ (lastOp'.op \notin {"reset", "config_account"} \/ nEvents' = nEvents) =>
                apex_state'.high_water_mark >= apex_state.high_water_mark
         ]_vars

\* C9 witness: after a winning and then a losing P&L event the high-water
\* mark stands above both the balance and the initial balance.
C9_Witness ==
    /\ lastOp.op = "record"
    /\ lastOp.pnl < 0
    /\ apex_state.high_water_mark > apex_state.current_balance
    /\ apex_state.high_water_mark > apex_config.initial_balance

\* C10: a daily-loss check emits nothing when the day's pnl is >= 0 or the
\* loss is below 80%; the first check of a date in the 80%..100% band emits
\* daily_loss_warning; the first check of a date at or above 100% emits
\* daily_loss_block.
C10_DailyLossClassification ==
    /\ lastCheck.band = "none" => lastCheck.alerts = {}
    /\ (lastCheck.band = "warn" /\ lastCheck.first) => "daily_loss_warning" \in lastCheck.alerts
    /\ (lastCheck.band = "block" /\ lastCheck.first) => "daily_loss_block" \in lastCheck.alerts

\* C11: the trailing-drawdown check classifies by drawdown = high_water_mark -
\* current_balance: below 80% of max_trailing_drawdown it emits nothing; the
\* first check of a date with the drawdown at or above 80% but below the max
\* emits drawdown_warning and not drawdown_breach; the first check of a date
\* with the drawdown at or above the max emits drawdown_breach.  With
\* high_water_mark 52000, current_balance 49600 and max 2500 it emits
\* drawdown_warning only.
C11_DrawdownClassification ==
    /\ lastDrawdown.band = "none" => lastDrawdown.alerts = {}
    /\ (lastDrawdown.band = "warn" /\ lastDrawdown.first) =>
           lastDrawdown.alerts = {"drawdown_warning"}
    /\ (lastDrawdown.band = "breach" /\ lastDrawdown.first) =>
           "drawdown_breach" \in lastDrawdown.alerts
    /\ check_trailing_drawdown(
           [FreshState(DEFAULT_APEX_CONFIG) EXCEPT !.high_water_mark = 52000,
                                                   !.current_balance = 49600],
           DEFAULT_APEX_CONFIG, 1).alerts = <<"drawdown_warning">>

\* ------------------------------------------------------------------------
\* Claims about the outcome tracker
\* ------------------------------------------------------------------------
Terminal(row) == row.outcome \in {"WIN", "LOSS", "DISCARDED"}

\* a thread that has evaluated recommendation i and is about to call
\* update_signal_outcome for it
AboutToUpdate(t, i) == pc[t] = "update" /\ loc[t].sig = i

\* C1: once a recommendation is WIN, LOSS or DISCARDED no step of a tracker
\* thread or of a check cycle changes its row (status, exit price, pnl),
\* whatever the interleaving.
C1_TerminalIsFinal ==
    [][\A i \in SignalIds : Terminal(signals[i]) => signals'[i] = signals[i]]_vars

\* C1 witness: a recommendation is terminal while another thread, which
\* evaluated it when it was still PENDING, is about to write a different
\* outcome for it.
C1_Witness ==
    \E i \in SignalIds, t \in Threads :
        /\ Terminal(signals[i])
        /\ AboutToUpdate(t, i)
        /\ loc[t].outcome # signals[i].outcome

\* C2: for every interleaving of a tracker thread with overlapping check
\* cycles, the WIN/LOSS transition of a recommendation is applied at most once
\* and record_trade_result is called at most once for it.
C2_ResolvedAtMostOnce ==
    \A i \in SignalIds : applied[i] <= 1 /\ recorded[i] <= 1

\* C2 witness: a recommendation has been resolved once by one thread while
\* its tracker and a check cycle, or two check cycles, both hold a WIN/LOSS
\* evaluation of it that they have not applied yet.
C2_Witness ==
    \E i \in SignalIds, t1, t2 \in Threads :
        /\ t1 # t2
        /\ applied[i] = 1
        /\ AboutToUpdate(t1, i) /\ loc[t1].outcome \in {"WIN", "LOSS"}
        /\ AboutToUpdate(t2, i) /\ loc[t2].outcome \in {"WIN", "LOSS"}

\* the outcome, exit price and pnl an evaluation against price p is to give
\* for recommendation s; "PENDING" when neither level is reached
Evaluation(s, p) ==
    IF s.direction = "LONG"
    THEN IF p >= s.target_price
         THEN [outcome |-> "WIN", price |-> p, pnl |-> s.target_price - s.entry_price]
         ELSE IF p <= s.stop_price
         THEN [outcome |-> "LOSS", price |-> p, pnl |-> s.stop_price - s.entry_price]
         ELSE [outcome |-> "PENDING", price |-> NoPrice, pnl |-> 0]
    ELSE IF p <= s.target_price
         THEN [outcome |-> "WIN", price |-> p, pnl |-> s.entry_price - s.target_price]
         ELSE IF p >= s.stop_price
         THEN [outcome |-> "LOSS", price |-> p, pnl |-> s.entry_price - s.stop_price]
         ELSE [outcome |-> "PENDING", price |-> NoPrice, pnl |-> 0]

\* the recommendation thread t takes up in its next evaluation
Evaluating(t) == IF t \in SignalIds THEN t ELSE loc[t].pending[loc[t].idx]

\* prices below, at, between and beyond the stop and the target of both
\* recommendations
OutcomePrices == {80, 90, 100, 110, 120, 130}

\* check_signal_outcome gives what Evaluation gives, None standing for PENDING
SameEvaluation(s, p) ==
    LET e == Evaluation(s, p)
        r == check_signal_outcome(s, p)
    IN  IF e.outcome = "PENDING" THEN r = NoOutcome ELSE r = e

\* this step is thread t evaluating its recommendation against a price:
\* a pass of the tracker's loop that is not the expiry, or one signal of a
\* check cycle
Evaluates(t) ==
    /\ price # NoPrice
    /\ IF t \in SignalIds THEN tracking_active /\ TrackSignal(t, FALSE)
       ELSE CheckSignal(t)

\* C17: outcome evaluation against the latest price: LONG, price >= target is
\* a WIN with pnl = target - entry and price <= stop a LOSS with
\* pnl = stop - entry; SHORT, price <= target is a WIN with
\* pnl = entry - target and price >= stop a LOSS with pnl = entry - stop; at
\* any other price the recommendation stays PENDING: the thread goes on
\* without an update and the row is not written.
C17_OutcomeEvaluation ==
    /\ [](\A r \in Recommendations, p \in OutcomePrices : SameEvaluation(PendingRow(r), p))
    /\ [][\A t \in Threads :
             Evaluates(t) =>
                 LET e == Evaluation(signals[Evaluating(t)], price)
                 IN  IF e.outcome = "PENDING"
                     THEN pc'[t] # "update" /\ signals' = signals
                     ELSE /\ pc'[t] = "update"
                          /\ loc'[t].sig = Evaluating(t)
                          /\ loc'[t].outcome = e.outcome
                          /\ loc'[t].price = e.price
                          /\ loc'[t].pnl = e.pnl]_vars

\* C17 witness: a check cycle found the short recommendation at its stop or
\* beyond and is about to write LOSS with pnl = entry - stop.
C17_Witness ==
    \E c \in Checkers :
        /\ pc[c] = "update"
        /\ signals[loc[c].sig].direction = "SHORT"
        /\ loc[c].outcome = "LOSS"
        /\ loc[c].price >= signals[loc[c].sig].stop_price
        /\ loc[c].pnl = signals[loc[c].sig].entry_price - signals[loc[c].sig].stop_price

\* C16: a PENDING recommendation whose target and stop are not hit within the
\* maximum duration (24h) becomes DISCARDED with pnl 0, whichever evaluation
\* path is in use (the tracker thread, a resumed one included, or the periodic
\* check of all pending recommendations); it does not stay PENDING for ever.
C16_PendingExpires ==
    \A id \in SignalIds :
        <>(signals[id].outcome = "DISCARDED" /\ signals[id].pnl_ticks = 0)

\* ------------------------------------------------------------------------
\* Claims about the candle store
\* ------------------------------------------------------------------------
\* c is the aggregate of the candles of group: open of the first, maximum
\* high, minimum low, close of the last, sum of the volumes
IsAggregateOf(c, group) ==
    /\ c.open = group[1].open
    /\ c.close = group[Len(group)].close
    /\ \A k \in 1..Len(group) : group[k].high <= c.high /\ group[k].low >= c.low
    /\ \E k \in 1..Len(group) : group[k].high = c.high
    /\ \E k \in 1..Len(group) : group[k].low = c.low
    /\ c.volume = sum_volume(group)

\* the derived buffers with their periods
Derived == {<<5, candles_5m>>, <<15, candles_15m>>}

\* C7: for every sequence of 1m candles ingested, the i-th candle of the 5m
\* (15m) buffer is the aggregate of the i-th complete group of 5 (15)
\* consecutive candles of the sequence, and there is no candle for a trailing
\* group of fewer than 5 (15) candles.
C7_AggregatesOfCompleteGroups ==
    \A pb \in Derived :
        /\ Len(pb[2]) * pb[1] <= Len(ingested)
        /\ \A i \in 1..Len(pb[2]) :
              IsAggregateOf(pb[2][i], SubSeq(ingested, (i - 1) * pb[1] + 1, i * pb[1]))

\* C7 witness: 5m and 15m candles exist, a partial group of 1m candles trails
\* both, and the high of the first 5m candle comes from the middle of its group.
C7_Witness ==
    /\ Len(candles_5m) >= 3 /\ Len(candles_15m) >= 1
    /\ Len(ingested) % 5 # 0 /\ Len(ingested) % 15 # 0
    /\ \E k \in 2..4 : /\ ingested[k].high = candles_5m[1].high
                       /\ ingested[k].high > ingested[1].high
                       /\ ingested[k].high > ingested[5].high

\* C8: after every ingest of a 1m candle, also once the 1m buffer is full and
\* evicts, the 5m and 15m buffers regroup the current 1m buffer: there is one
\* derived candle per complete period of the 1m buffer, and each aggregates
\* `period` consecutive candles that are in the 1m buffer now.
C8_DerivedRegroupCurrentBuffer ==
    \A pb \in Derived :
        /\ Len(pb[2]) = Len(candles_1m) \div pb[1]
        /\ \A i \in 1..Len(pb[2]) :
              \E j \in 1..(Len(candles_1m) - pb[1] + 1) :
                  /\ candles_1m[j].time = pb[2][i].time
                  /\ IsAggregateOf(pb[2][i], SubSeq(candles_1m, j, j + pb[1] - 1))

\* C21: a candle whose open, high, low or close is not finite (NaN, +/-inf)
\* is rejected with a validation error and leaves the 1m, 5m and 15m buffers
\* and the persisted candle history unchanged: no buffer and no stored
\* history ever holds a candle with a non-finite price.
C21_NonFiniteRejected ==
    /\ \A i \in 1..Len(ingested) : FiniteCandle(ingested[i])
    /\ \A i \in 1..Len(candles_1m) : FiniteCandle(candles_1m[i])
    /\ \A i \in 1..Len(candles_5m) : FiniteCandle(candles_5m[i])
    /\ \A i \in 1..Len(candles_15m) : FiniteCandle(candles_15m[i])

\* C22: every write of the account state is made by a thread that holds
\* apex_lock, and no thread reads the account state while another thread has
\* applied some of the writes of its operation and not yet all of them.
C22_ExclusiveAccountState ==
    [][/\ (apex_state' # apex_state => apex_lock # NoThread)
       /\ \A t \in ApexThreads :
             (apex_pc[t] = "return" /\ apex_pc'[t] = "idle") => ~PartiallyUpdated(t)]_vars

\* the 5m and 15m buffers a run of store_candle calls, one after the other,
\* leaves for the 1m candles c1m
SerialBuffer(c1m, period, maxlen) ==
    rebuild(<<>>, c1m, 0, Len(c1m) \div period, <<period, maxlen>>)

\* C23: no reader finds the 5m or 15m buffer between the clear and the end of
\* the rebuild of a concurrent request, and when every request has returned
\* the buffers hold the aggregates of all 1m candles stored, each once and in
\* order.
C23_IngestSerialized ==
    /\ ~observed.rebuilding
    /\ (\A w \in IngestThreads : ingest_pc[w] = "idle")
          => /\ candles_5m = SerialBuffer(candles_1m, 5, CANDLE_LIMIT_5M)
             /\ candles_15m = SerialBuffer(candles_1m, 15, CANDLE_LIMIT_15M)

\* C24: a call of update_signal_outcome on a recommendation that is already
\* WIN, LOSS or DISCARDED returns and changes nothing: not the row, not the
\* win/loss counts of the strategy version, not the daily statistics.
C24_TerminalUpdateIsNoOp ==
    [][\A t \in Checkers, signal_id \in SignalIds, outcome \in OutcomeArguments,
          exit_price \in ExitPrices, pnl_ticks \in PnlTicks :
          (/\ signals[signal_id].outcome \in {"WIN", "LOSS", "DISCARDED"}
           /\ CallUpdateSignalOutcome(t, signal_id, outcome, exit_price, pnl_ticks))
          => (/\ signals' = signals
              /\ strategy_stats' = strategy_stats
              /\ daily_stats' = daily_stats
              /\ pc'[t] # "blocked")]_vars

\* C25: the account state changes only in a step in which a thread whose
\* evaluation gave WIN or LOSS has that outcome on the row of its
\* recommendation; an expiry to DISCARDED, a check skipped for want of a price
\* and an evaluation that leaves the recommendation PENDING leave it as it is.
C25_AccountChangesOnResolution ==
    [][apex_state' # apex_state =>
          \E t \in Threads :
              /\ pc[t] = "update"
              /\ loc[t].outcome \in {"WIN", "LOSS"}
              /\ signals'[loc[t].sig].outcome = loc[t].outcome]_vars

\* C25 witness: one recommendation has expired to DISCARDED, the other has
\* been evaluated and resolved to WIN or LOSS, and the account state is the
\* one the run began with.
C25_Witness ==
    /\ \E i \in SignalIds : signals[i].outcome = "DISCARDED"
    /\ \E j \in SignalIds : signals[j].outcome \in {"WIN", "LOSS"}
    /\ apex_state = FreshState(apex_config)

\* the account state with no alert marked as sent
NothingSent(st) == [st EXCEPT !.alerts_sent = [d \in Dates |-> {}]]

\* the alerts a check returns, as a set
AlertSet(r) == {r.alerts[i] : i \in 1..Len(r.alerts)}

\* the condition under which the daily loss check emits daily_loss_block for
\* today, and the drawdown check drawdown_breach, had no alert been sent
BlockConditionHolds ==
    \/ "daily_loss_block" \in
          AlertSet(check_daily_loss_limit(NothingSent(apex_state), apex_config, today))
    \/ "drawdown_breach" \in
          AlertSet(check_trailing_drawdown(NothingSent(apex_state), apex_config, today))

\* C26: a call of should_block_trading() changes nothing of the account state
\* or the configuration, and it returns blocked exactly when today's loss is
\* at least max_daily_loss or the balance is at least max_trailing_drawdown
\* below the high water mark, which is when the first two rules would emit
\* daily_loss_block or drawdown_breach.
C26_ShouldBlockReadOnly ==
    [][\A t \in ApexThreads :
          ShouldBlockTrading(t) =>
              /\ apex_state' = apex_state
              /\ apex_config' = apex_config
              /\ apex_loc'[t].returned.blocked
                    <=> \/ 0 - apex_state.daily_pnl[today] >= apex_config.max_daily_loss
                        \/ apex_state.high_water_mark - apex_state.current_balance
                              >= apex_config.max_trailing_drawdown
              /\ apex_loc'[t].returned.blocked <=> BlockConditionHolds]_vars

\* C26 witness: the query has answered blocked for a drawdown that is exactly
\* max_trailing_drawdown while today's loss is below max_daily_loss.
C26_Witness ==
    \E t \in ApexThreads :
        /\ apex_loc[t].op = "should_block"
        /\ apex_loc[t].returned.blocked
        /\ apex_state.high_water_mark - apex_state.current_balance
              = apex_config.max_trailing_drawdown
        /\ 0 - apex_state.daily_pnl[today] < apex_config.max_daily_loss

\* C27: once daily_loss_block has been emitted for a date no later check emits
\* daily_loss_warning for that date, and once drawdown_breach has been emitted
\* on a date no later check emits drawdown_warning on that date.
C27_EscalationOneWay ==
    [][\A d \in Dates :
          /\ emitted[<<d, "daily_loss_block">>] > 0 =>
                emitted'[<<d, "daily_loss_warning">>] <= emitted[<<d, "daily_loss_warning">>]
          /\ emitted[<<d, "drawdown_breach">>] > 0 =>
                emitted'[<<d, "drawdown_warning">>] <= emitted[<<d, "drawdown_warning">>]]_vars

RECURSIVE SumDaily(_, _)
\* sum(apex_state['daily_pnl'].values()), over the dates ds
SumDaily(daily_pnl, ds) ==
    IF ds = {} THEN 0
    ELSE LET d == CHOOSE x \in ds : TRUE
         IN  daily_pnl[d] + SumDaily(daily_pnl, ds \ {d})

\* C28: whenever no record_trade_result or reset_apex_state call is inside its
\* critical section, whatever the interleaving of the calls so far,
\* current_balance - initial_balance is the sum of daily_pnl over all dates.
C28_BooksBalance ==
    apex_lock = NoThread =>
        apex_state.current_balance - apex_config.initial_balance
            = SumDaily(apex_state.daily_pnl, Dates)

\* C28 witness: pnl has been booked on both days by calls of
\* different threads, the balance is off its initial value, no call is in its
\* critical section and one is waiting to enter.
C28_Witness ==
    /\ apex_lock = NoThread
    /\ \A d \in Dates : apex_state.daily_pnl[d] # 0
    /\ apex_state.current_balance # apex_config.initial_balance
    /\ \E t \in ApexThreads : apex_pc[t] = "acquire"
    /\ \E t \in ApexThreads : apex_pc[t] = "return"

\* C29: a step that is not reset_apex_state clears no alert already sent, and
\* it leaves current_balance, high_water_mark and daily_pnl as they are unless
\* it is a record_trade_result booking a pnl; a configuration update in
\* particular leaves the whole account state as it is.
C29_ResetOnlyByReset ==
    [][~ResetApexState =>
          /\ \A d \in Dates : apex_state.alerts_sent[d] \subseteq apex_state'.alerts_sent[d]
          /\ \/ /\ apex_state'.current_balance = apex_state.current_balance
                /\ apex_state'.high_water_mark = apex_state.high_water_mark
                /\ apex_state'.daily_pnl = apex_state.daily_pnl
             \/ \E pnl \in PnlValues, tk \in Dates : RecordTradeResult(pnl, tk)
          /\ \A c \in ConfigUpdates : UpdateApexConfig(c) => apex_state' = apex_state]_vars

\* the days with a positive pnl above max_day_profit_pct percent of the sum
\* of the pnl of all positive days
ExceedingDays(st, cfg) ==
    LET positive == {d \in DOMAIN st.daily_pnl : st.daily_pnl[d] > 0}
        total == SumDaily(st.daily_pnl, positive)
    IN  {d \in positive : st.daily_pnl[d] * 100 > cfg.max_day_profit_pct * total}

\* the check of this step emits consistency_warning
EmitsConsistencyWarning ==
    emitted'[<<today, "consistency_warning">>] = emitted[<<today, "consistency_warning">>] + 1

\* C30: a consistency check on a day whose warning has not been sent emits
\* consistency_warning exactly when some profitable day has more than
\* max_day_profit_pct percent of the profit of all profitable days; no check
\* emits it otherwise; the alert names a day with the largest share; with no
\* profitable day there is no alert (and no division).
C30_ConsistencyWarning ==
    [][CheckConsistencyRule =>
          /\ "consistency_warning" \notin apex_state.alerts_sent[today] =>
                (EmitsConsistencyWarning <=> ExceedingDays(apex_state, apex_config) # {})
          /\ EmitsConsistencyWarning =>
                /\ ExceedingDays(apex_state, apex_config) # {}
                /\ lastOp'.date \in ExceedingDays(apex_state, apex_config)
                /\ \A d \in DOMAIN apex_state.daily_pnl :
                      apex_state.daily_pnl[d] <= apex_state.daily_pnl[lastOp'.date]
          /\ (\A d \in DOMAIN apex_state.daily_pnl : apex_state.daily_pnl[d] <= 0) =>
                (~EmitsConsistencyWarning /\ apex_state' = apex_state)]_vars

\* C30 witness: a check has run with profit on every day, one day holding
\* exactly 30 percent of it and none more, and has emitted nothing.
C30_Witness ==
    /\ lastOp.op = "check_consistency"
    /\ \A d \in DOMAIN apex_state.daily_pnl : apex_state.daily_pnl[d] > 0
    /\ \E d \in DOMAIN apex_state.daily_pnl :
          apex_state.daily_pnl[d] * 100
              = apex_config.max_day_profit_pct
                  * SumDaily(apex_state.daily_pnl, DOMAIN apex_state.daily_pnl)
    /\ ExceedingDays(apex_state, apex_config) = {}
    /\ \A d \in DOMAIN apex_state.alerts_sent : apex_state.alerts_sent[d] = {}

\* ------------------------------------------------------------------------
\* Claims about the analysis
\* ------------------------------------------------------------------------

\* the trends full_analysis computed from its inputs
Trend15 == analyze_trend(Windows[analysed.c15m])

Trend5 == analyze_trend(Windows[analysed.c5m])

Trend1 == analyze_trend(Windows[analysed.c1m])

AllDirections(d) == Trend15.direction = d /\ Trend5.direction = d /\ Trend1.direction = d

\* C5: full_analysis returns LONG (SHORT) only if the 15m, 5m and 1m
\* directions are all bullish (all bearish) and neither the 15m nor the 5m
\* strength is weak; in every other case the verdict is STAY_AWAY, whatever
\* the structure, volume, catalyst and reward:risk scores are.
C5_UnanimousOrStayAway ==
    result # NoResult =>
        /\ result.direction \in {"LONG", "SHORT", "STAY_AWAY"}
        /\ result.direction = "LONG" =>
              AllDirections("bullish") /\ Trend15.strength # "weak" /\ Trend5.strength # "weak"
        /\ result.direction = "SHORT" =>
              AllDirections("bearish") /\ Trend15.strength # "weak" /\ Trend5.strength # "weak"

\* C5 witness: two of the three timeframes were bullish, the third was not,
\* none of the higher timeframes was weak, and the verdict was STAY_AWAY.
C5_Witness ==
    /\ result # NoResult
    /\ Trend15.direction = "bullish" /\ Trend5.direction = "bullish"
    /\ Trend1.direction # "bullish"
    /\ Trend15.strength # "weak" /\ Trend5.strength # "weak"
    /\ ~is_trading_blocked(analysed.reads.blocked)
    /\ result.direction = "STAY_AWAY"

\* the tiers that were active while the call ran
ActiveTiers == {analysed.reads.tier, analysed.reads.targets}

\* C6: full_analysis gives a LONG/SHORT verdict only if the confidence is at
\* least the min_confidence of the tier active at evaluation time (80 PRIME,
\* 85 MIDDAY/CLOSE, 90 EVENING/PREMARKET); otherwise the verdict is STAY_AWAY.
C6_VerdictMeetsTierConfidence ==
    (result # NoResult /\ result.direction \in {"LONG", "SHORT"}) =>
        \E t \in ActiveTiers : result.confidence >= TIERS[t].min_confidence

\* C13: for all inputs (candle histories, tier, instrument) the confidence
\* full_analysis returns is between 0 and 100, on every return path: blocked
\* tier, gate failure, chaotic structure, full scoring.
C13_ConfidenceBounds ==
    result # NoResult => result.confidence \in 0..100

\* C13 witness: a call that went through the full scoring returned the
\* highest confidence, 100.
C13_Witness ==
    /\ result # NoResult
    /\ result.direction \in {"LONG", "SHORT"}
    /\ result.stay_away_reason = "none"
    /\ result.confidence = 100

\* ------------------------------------------------------------------------
\* Claims about the webhook pipeline
\* ------------------------------------------------------------------------

\* a result of full_analysis that recommends nothing: verdict STAY_AWAY /
\* NO_TRADE, no entry, stop or targets, no position size
RecommendsNothing(r) ==
    /\ r.direction = "STAY_AWAY" /\ r.signal_type = "NO_TRADE"
    /\ r.entry = 0 /\ r.stop = 0 /\ r.target1 = 0 /\ r.target2 = 0
    /\ "position_size" \notin DOMAIN r

C3_BlockedPersistsNothing ==
    [][should_block_trading(apex_state, apex_config, today) => signals' = signals]_vars

\* levels with an opening range of 5000.00 to 5010.00 on every date
OrbKnown == [d \in Dates |-> [NoLevels EXCEPT !.exists = TRUE, !.orb_high = 501000,
                                             !.orb_low = 500000]]

\* prices below, inside and above that range, and no price at all (None)
BiasPrices == {0, 490000, 500500, 520000}

PlanMaxStop == max_stop_points(plan_in.ticker) * 100

\* the raw stop distance 1.5 x ATR exceeds the maximum stop
RawStopTooWide == 3 * plan_in.atr.num > 2 * plan_in.atr.den * PlanMaxStop

\* C12: for every instrument with max_stop_points = M, every entry price and
\* every ATR value the emitted stop is at most M from entry; an over-wide stop
\* is capped to exactly M on the loss side of entry; and stop_capped is true
\* exactly when the raw 1.5 x ATR distance exceeded M.
C12_StopCappedAtMax ==
    plan # NoPlan =>
        /\ Abs(plan.entry - plan.stop) <= PlanMaxStop
        /\ RawStopTooWide =>
              plan.stop = IF plan_in.bias = "LONG" THEN plan.entry - PlanMaxStop
                          ELSE plan.entry + PlanMaxStop
        /\ plan.stop_capped <=> RawStopTooWide

\* ------------------------------------------------------------------------
\* Claims about the session clock
\* ------------------------------------------------------------------------

\* time t lies in the window of tier name; the window of BLOCKED passes midnight
InWindow(t, name) ==
    LET w == TIER_WINDOWS[name]
    IN  IF w.start < w.end THEN w.start <= t /\ t < w.end
        ELSE t >= w.start \/ t < w.end

\* C15: get_current_tier is total and single-valued over the 24-hour clock:
\* [09:30,11:30) is PRIME, [11:30,15:30) MIDDAY, [15:30,17:00) CLOSE,
\* [17:00,21:00) EVENING, [21:00,24:00) and [00:00,06:00) BLOCKED,
\* [06:00,09:30) PREMARKET; every instant lies in exactly one window, the tier
\* returned is that window's, and the fallback return is never reached.
C15_TierTotalSingleValued ==
    /\ Cardinality({name \in TierNames : InWindow(clock, name)}) = 1
    /\ tier_read # NoRead =>
          /\ tier_read.tier \in TierNames
          /\ InWindow(clock, tier_read.tier)
          /\ ~tier_read.fallback

\* C15 witness: the tier was read in the first minute of PREMARKET, 06:00,
\* the window the last test of get_current_tier decides.
C15_Witness ==
    /\ clock = time(6, 0)
    /\ tier_read = [tier |-> "PREMARKET", fallback |-> FALSE]

\* C18: calculate_position_size returns
\* max(1, floor(risk / ((|entry - stop| / tick size) x tick value))) contracts
\* for every instrument, entry, stop and risk budget: the largest number of
\* contracts whose risk fits the budget, and never less than 1; with a stop
\* distance of zero it returns 1 contract.  MNQ (tick 0.25, $0.50), entry
\* 21000, stop 21015, budget $250: $30 a contract, 8 contracts.
C18_PositionSizeFormula ==
    /\ "position_size" \in DOMAIN sizing =>
          LET info == get_ticker_info(sizing.ticker)
              d == Abs(sizing.entry - sizing.stop)
              budget == sizing.risk_amount * 100 * info.tick_size
              n == sizing.position_size.contracts
          IN  /\ n >= 1
              /\ d = 0 => n = 1
              /\ d > 0 =>
                    /\ n > 1 => n * d * info.tick_value <= budget
                    /\ (n + 1) * d * info.tick_value > budget
    /\ calculate_position_size("MNQ", 2100000, 2101500, 250).contracts = 8
    /\ calculate_position_size("MNQ", 2100000, 2101500, 250).risk_per_contract = 3000

\* C19: targets use the active tier's R-multiples, not a fixed ratio: target1
\* and target2 are the entry plus (LONG) or minus (SHORT) the final, possibly
\* capped, stop distance times the tier's t1 and t2 multiples, to the cent.
\* SHORT at 21000 with stop distance 15 in PRIME (1.5, 2.0): 20977.5 and 20970.0.
C19_TargetsUseTierMultiples ==
    /\ plan # NoPlan =>
          LET dist == Abs(plan.entry - plan.stop)
              tier == TIERS[plan_in.targets_tier]
              sign == IF plan_in.bias = "LONG" THEN 1 ELSE -1
          IN  /\ plan.stop_pips = dist
              /\ Abs(plan.target1 * 10 - (plan.entry * 10 + sign * dist * tier.t1_rr)) <= 5
              /\ Abs(plan.target2 * 10 - (plan.entry * 10 + sign * dist * tier.t2_rr)) <= 5
    /\ LET example == generate_levels("MNQ", 2100000, [num |-> 1000, den |-> 1], "SHORT", "PRIME")
       IN  /\ example.stop = 2101500
           /\ example.target1 = 2097750
           /\ example.target2 = 2097000

\* C19 witness: a short plan in MIDDAY (1.0, 1.5) whose stop was capped: the
\* first target lies one capped stop distance below the entry.
C19_Witness ==
    /\ plan # NoPlan
    /\ plan_in.bias = "SHORT"
    /\ plan_in.targets_tier = "MIDDAY"
    /\ plan.stop_capped
    /\ plan.target1 = plan.entry - PlanMaxStop
    /\ 2 * plan.target2 = 2 * plan.entry - 3 * PlanMaxStop


\* ------------------------------------------------------------------------
\* C31: when get_current_price returns None the check of that recommendation
\* is skipped: the row stays PENDING (so the next get_pending_signals returns
\* it again), no outcome is written, record_trade_result is not called, the
\* check cycle goes on to the next recommendation of its snapshot (or returns
\* after the last one) and a tracker thread stays in its loop.
\* ------------------------------------------------------------------------
PendingIds(rows) ==
    {get_pending_signals(rows)[k] : k \in 1..Len(get_pending_signals(rows))}

Untouched ==
    /\ signals' = signals
    /\ strategy_stats' = strategy_stats
    /\ daily_stats' = daily_stats
    /\ applied' = applied
    /\ recorded' = recorded
    /\ apex_state' = apex_state
    /\ emitted' = emitted

C31_UnavailablePriceSkips ==
    [][/\ \A c \in Checkers :
             (CheckSignal(c) /\ price = NoPrice) =>
                 /\ Untouched
                 /\ loc[c].pending[loc[c].idx] \in PendingIds(signals')
                    \/ signals[loc[c].pending[loc[c].idx]].outcome # "PENDING"
                 /\ IF loc[c].idx < Len(loc[c].pending)
                    THEN pc'[c] = "iter" /\ loc'[c].idx = loc[c].idx + 1
                    ELSE pc'[c] = "off"
       /\ \A id \in SignalIds :
             (TrackSignal(id, FALSE) /\ tracking_active /\ price = NoPrice) =>
                 /\ Untouched
                 /\ pc'[id] = "loop"
                 /\ id \in tracked_signals']_vars

\* C31 witness: a check cycle has passed the first recommendation of its
\* snapshot with no price available and is at the second one; the first is
\* still PENDING
C31_Witness ==
    \E c \in Checkers :
        /\ pc[c] = "iter"
        /\ loc[c].idx = 2
        /\ price = NoPrice
        /\ signals[loc[c].pending[1]].outcome = "PENDING"
        /\ \A i \in SignalIds : applied[i] = 0


\* ------------------------------------------------------------------------
\* C32: the opening range of a date is built only from candles whose own time
\* lies in [09:30, 10:00): orb_high and orb_low change only while the current
\* time is inside the window, and a new value is the high (low) of a 1m candle
\* of the window.  The feed brings one candle a minute and the request is
\* handled in the minute of its candle, so at any time inside the window the
\* candles of the window are among the last thirty of the 1m buffer.
\* ------------------------------------------------------------------------
OrbMinutes == time(10, 0) - time(9, 30)

WindowCandles(c1m) ==
    {c1m[i] : i \in {j \in 1..Len(c1m) : Len(c1m) - j < OrbMinutes}}

C32_OpeningRangeFromWindow ==
    [][\A d \in Dates :
          /\ levels'[d].orb_high # levels[d].orb_high =>
                /\ in_opening_range(now)
                /\ \E c \in WindowCandles(candles_1m') : c.high = levels'[d].orb_high
          /\ levels'[d].orb_low # levels[d].orb_low =>
                /\ in_opening_range(now)
                /\ \E c \in WindowCandles(candles_1m') : c.low = levels'[d].orb_low]_vars


\* ------------------------------------------------------------------------
\* C33: the pdh/pdl of a day are the session high and low of the previous
\* trading day, Saturday and Sunday skipped (on a Monday: Friday's), both
\* when run_analysis updates the levels from the buffers and when the levels
\* are loaded from candle_history at the start of the server.
\* ------------------------------------------------------------------------
PreviousTradingDay(d) == skip_weekend(d - 1)

\* the candles stored on date d: what the stored history holds of its session
StoredRows(history, d) ==
    {r \in {history[i] : i \in 1..Len(history)} : r.date = d}

C33_PreviousTradingDay ==
    [][LET p == PreviousTradingDay(today)
       IN  /\ (RunAnalysis /\ p >= 1 /\ levels[p].exists) =>
                 /\ levels'[today].pdh = levels[p].session_high
                 /\ levels'[today].pdl = levels[p].session_low
           /\ (StartServer /\ p >= 1 /\ StoredRows(ingested, p) # {}) =>
                 /\ levels'[today].pdh = select_max_min(StoredRows(ingested, p)).high
                 /\ levels'[today].pdl = select_max_min(StoredRows(ingested, p)).low]_vars


\* ------------------------------------------------------------------------
\* C34: graceful shutdown.  Once stop_all_tracking() has been called no
\* tracker thread and no pass of the periodic checker starts an evaluation;
\* the evaluations in progress complete, every tracker thread and the
\* periodic checker come to an end and tracked_signals becomes empty.
\* ------------------------------------------------------------------------
Stoppable == SignalIds \cup {PeriodicChecker}

C34_GracefulShutdown ==
    /\ [][~tracking_active =>
             \A t \in Stoppable :
                 pc[t] \in {"off", "loop"} => pc'[t] \in {"off", "loop"}]_vars
    /\ (~tracking_active) ~> (/\ tracked_signals = {}
                              /\ \A t \in Stoppable : pc[t] = "off")


\* ------------------------------------------------------------------------
\* C35: one evaluation uses one session tier.  The result of a full_analysis
\* call is the result the same inputs give when the blocked check, the risk
\* budget and the target multiples are all taken from the tier the result
\* reports, also when a tier boundary passes during the call.
\* ------------------------------------------------------------------------
OneTier(tier, reads) ==
    [tier |-> tier, risk |-> tier, blocked |-> tier, catalyst |-> reads.catalyst,
     targets |-> tier]

C35_OneTierPerEvaluation ==
    result # NoResult =>
        result = full_analysis(Windows[analysed.c15m], Windows[analysed.c5m],
                               Windows[analysed.c1m], analysed.ticker,
                               OneTier(result.tier, analysed.reads), analysed.weekend)


\* ------------------------------------------------------------------------
\* C36: every tier but BLOCKED can trade: for each of PRIME, MIDDAY, CLOSE,
\* EVENING and PREMARKET there are candle buffers, an instrument and a time
\* inside the tier for which full_analysis gives a LONG or SHORT result that
\* validate_signal accepts (no news blackout, the levels of the day as they
\* are), so that the pipeline saves it.
\* ------------------------------------------------------------------------
TradingTiers == TierNames \ {"BLOCKED"}

Accepted(w15, w5, w1, ticker, s) ==
    LET r == full_analysis(Windows[w15], Windows[w5], Windows[w1], ticker,
                           ClockReads(s, 0), FALSE)
    IN  /\ r.direction \in {"LONG", "SHORT"}
        /\ validate_signal(signal_of(r), ticker, FALSE, levels, today, s)

CanTrade(tier) ==
    \E s \in Segments, ticker \in Tickers, w15 \in WindowNames, w5 \in WindowNames,
       w1 \in Windows1m :
        /\ get_current_tier(s) = tier
        /\ Accepted(w15, w5, w1, ticker, s)

C36_EveryTierCanTrade == \A tier \in TradingTiers : CanTrade(tier)


\* ------------------------------------------------------------------------
\* C37: the dollars record_trade_result books for a resolved recommendation
\* are the move from the entry to the level that was hit, counted in ticks of
\* the instrument and multiplied by its tick value, with the sign of the
\* outcome.  The thread at `update` holds in pnl the value it passes to
\* update_signal_outcome as pnl_ticks and then to record_trade_result, which
\* turns it into dollars with ticks_to_dollars.
\* ------------------------------------------------------------------------
ExpectedDollars(row, outcome) ==
    LET info == get_ticker_info(row.ticker)
        level == IF outcome = "WIN" THEN row.target_price ELSE row.stop_price
        ticks == (Abs(level - row.entry_price) * 100) \div info.tick_size
        dollars == (ticks * info.tick_value) \div 100
    IN  IF outcome = "WIN" THEN dollars ELSE -dollars

C37_BookedPnlInTicks ==
    \A t \in Threads :
        (pc[t] = "update" /\ loc[t].outcome \in {"WIN", "LOSS"}) =>
            ticks_to_dollars(signals[loc[t].sig].ticker, loc[t].pnl)
                = ExpectedDollars(signals[loc[t].sig], loc[t].outcome)

\* The row the tracker follows for a result: outcome_tracker.py 152-157 keeps
\* entry, stop and 'target', which full_analysis sets to target2.
AsSignal(r) ==
    [direction |-> r.direction, entry_price |-> r.entry,
     stop_price |-> r.stop, target_price |-> r.target]

\* Prices at and next to every level of a result.
ProbePrices(r) ==
    UNION {{l - 1, l, l + 1} : l \in {r.stop, r.entry, r.target1, r.target2}}

WellFormed(r) ==
    /\ r.stop_pips > 0
    /\ r.direction = "LONG" =>
          r.stop < r.entry /\ r.entry < r.target1 /\ r.target1 <= r.target2
    /\ r.direction = "SHORT" =>
          r.target2 <= r.target1 /\ r.target1 < r.entry /\ r.entry < r.stop

\* C38: every full_analysis result with direction LONG or SHORT has a stop
\* distance above zero, the stop on the loss side of the entry and both
\* targets on the profit side with target1 no further than target2; so at no
\* price are the tracker's WIN and LOSS conditions both true, a WIN books a
\* positive and a LOSS a negative price difference.
C38_WellFormedLevels ==
    (result # NoResult /\ result.direction \in {"LONG", "SHORT"}) =>
        /\ WellFormed(result)
        /\ result.target = result.target2
        /\ \A p \in ProbePrices(result) :
              LET sig == AsSignal(result)
                  hit_target == IF result.direction = "LONG"
                                THEN p >= sig.target_price ELSE p <= sig.target_price
                  hit_stop == IF result.direction = "LONG"
                              THEN p <= sig.stop_price ELSE p >= sig.stop_price
                  o == check_signal_outcome(sig, p)
              IN  /\ ~(hit_target /\ hit_stop)
                  /\ hit_target => o.outcome = "WIN" /\ o.pnl > 0
                  /\ hit_stop => o.outcome = "LOSS" /\ o.pnl < 0
                  /\ ~(hit_target \/ hit_stop) => o = NoOutcome

\* C38 witness: a SHORT whose stop was capped has been returned.
C38_Witness ==
    /\ result # NoResult
    /\ result.direction = "SHORT"
    /\ result.stop_capped
    /\ result.stop = result.entry + max_stop_points(analysed.ticker) * 100

\* the tracker threads that were started for a recommendation and have not ended
ThreadsOf(id) == {s \in TrackerThreads : Running(s) /\ loc[s].sig = id}

\* C39: for every recommendation id at most one tracker thread exists,
\* however often and from however many threads start_tracking is called for
\* it, and the id stays in tracked_signals as long as that thread is in its
\* loop: it is removed only by the thread that ends.
C39_OneTrackerPerSignal ==
    \A id \in SignalIds :
        /\ Cardinality(ThreadsOf(id)) <= 1
        /\ \A s \in ThreadsOf(id) : pc[s] \in {"loop", "blocked"} => id \in tracked_signals

====
